---- MODULE Spec2Model ----
(***************************************************************************)
(* A model of the dependency-injection container of                        *)
(* src/src/reflection-helpers.ts (class InternalDependencyContainer) and   *)
(* of src/src/resolution-context.ts (class ResolutionContext).             *)
(*                                                                         *)
(* Objects with identity are numbered: a registration object is an index   *)
(* of regs, a constructed instance an index of insts, a container an index *)
(* of containers, a ResolutionContext an index of the ctxs of one call.    *)
(* A resolved value is an integer: a positive one is a constructed         *)
(* instance, a negative one a value supplied by the caller, 0 is           *)
(* undefined.                                                              *)
(***************************************************************************)
EXTENDS Integers, Sequences, FiniteSets, TLC

\* ------------------------------------------------------------------ bounds
\* The longest sequence of container calls explored.
MaxOps == 4
\* The most containers (the root and its descendants) alive at once.
MaxContainers == 2
\* The depth of nested resolve/construct calls at which the call stack of the
\* runtime overflows.
MaxDepth == 8
\* The longest sequence of calls explored where one token is registered with
\* the Container-scoped and Singleton lifecycles.
MaxScopeOps == 5
\* The longest sequence of calls explored where registrations are shared
\* between a container and its child.
MaxSharedOps == 6
\* The longest sequence of calls explored around dispose.
MaxDisposedOps == 3
\* The longest sequence of calls explored where disposables are constructed
\* and torn down.
MaxTeardownOps == 4
\* The longest sequence of calls explored where every provider kind is
\* registered with every lifecycle.
MaxLifecycleOps == 3
\* The longest sequence of calls explored around clearInstances.
MaxClearOps == 5
\* The longest sequence of registerSingleton calls explored.
MaxSingletonOps == 3
\* The longest sequence of calls explored around DelayedConstructors.
MaxDelayedOps == 4
\* The longest sequence of calls explored on a container and its child.
MaxChildOps == 5
\* The longest sequence of calls explored around interceptors.
MaxInterceptOps == 4
\* The longest sequence of calls explored around a parameter that cannot be
\* resolved.
MaxFailOps == 4
\* The longest sequence of calls explored around the cached instance of a
\* registration.
MaxCacheOps == 4
\* The longest sequence of calls explored around the owner of a disposable.
MaxOwnerOps == 4

\* ---------------------------------------------------------------- universe
\* Plain identifiers (strings, symbols) used as tokens.
NormalTokens == {"A", "B", "C"}
\* Constructors used as tokens and by Class providers.
Ctors ==
  {"K0", "K1", "KD", "KDThrows", "KDAsync", "KPair", "KAll", "KTr", "KTrAll", "KTok",
   "KNeed", "KBare", "KA", "KB", "KC", "KE"}
\* delay(() => K): a DelayedConstructor, the placeholder for a constructor
\* that is looked up only when the placeholder's proxy is used.
DelayedConstructors == {"delay(KB)", "delay(KC)", "delay(KE)"}
\* The constructor the function wrapped by a DelayedConstructor returns.
wrap(delayed) ==
  CASE delayed = "delay(KB)" -> "KB"
    [] delayed = "delay(KC)" -> "KC"
    [] delayed = "delay(KE)" -> "KE"
Tokens == NormalTokens \cup Ctors \cup DelayedConstructors
\* The absent optional argument.
NoToken == "<undefined>"
\* Values a caller may hand to registerInstance / useValue.
UserValues == {-1, -2}
\* The value of an empty slot (instance?: T).
Undefined == 0

Range(s) == {s[i] : i \in DOMAIN s}
Last(s) == s[Len(s)]

\* Lifecycle (types/lifecycle).
Transient == "Transient"
Singleton == "Singleton"
ResolutionScoped == "ResolutionScoped"
ContainerScoped == "ContainerScoped"
Lifecycle == {Transient, Singleton, ResolutionScoped, ContainerScoped}

\* Providers. kind "ctor" is a bare constructor handed to register in place of
\* a provider object.
ValueProvider(v) == [kind |-> "value", tok |-> NoToken, val |-> v]
TokenProvider(t) == [kind |-> "token", tok |-> t, val |-> Undefined]
ClassProvider(k) == [kind |-> "class", tok |-> k, val |-> Undefined]
FactoryProvider(f) == [kind |-> "factory", tok |-> f, val |-> Undefined]
BareCtor(k) == [kind |-> "ctor", tok |-> k, val |-> Undefined]
\* The factory functions of the universe: one builds a new object on every
\* call, one hands out the same object on every call.
Factories == {"fresh", "shared"}

isProvider(p) == p.kind \in {"value", "token", "class", "factory"}
isValueProvider(p) == p.kind = "value"
isTokenProvider(p) == p.kind = "token"
isClassProvider(p) == p.kind = "class"
isFactoryProvider(p) == p.kind = "factory"
isNormalToken(t) == t \in NormalTokens
isConstructorToken(t) == t \in Ctors \cup DelayedConstructors

\* ------------------------------------------------------------------- state
VARIABLES
  containers,   \* <<[parent, disposed]>>: the containers, by number; parent 0 = none
  registry,     \* registry[c][t]: the sequence of registration objects of token t
  regs,         \* the registration objects: [provider, lifecycle, instance, home, copyOf]
  insts,        \* the constructed objects: [cls, args, by, disposeCalls]
  disposables,  \* disposables[c]: the container's set of disposables, in insertion order
  pre,          \* pre[c][t]: the pre-resolution interceptors of token t
  post,         \* post[c][t]: the post-resolution interceptors of token t
  promises,     \* the promises teardowns returned: [of, state]
  disposals,    \* the promises dispose() returned: [c, tracked, waits, state, err]
  ctxs,         \* the ResolutionContext objects a proxy's callback holds on to
  proxies,      \* the proxies of DelayedConstructors: [inst, delayed, c, context, init, value]
  log           \* the calls made so far, each with its outcome

vars ==
  <<containers, registry, regs, insts, disposables, pre, post, promises, disposals,
    ctxs, proxies, log>>

EmptyRegistry == [t \in Tokens |-> <<>>]

\* The mutable state a call works on.  These live for one call: trace, the
\* registrations it resolved with the value of each; fired, the interceptor
\* callbacks it ran; cycle, whether it followed Token providers back to a token
\* it was resolving.  ctxs gains the ResolutionContext objects made during it.
Heap ==
  [containers |-> containers, registry |-> registry, regs |-> regs, insts |-> insts,
   disposables |-> disposables, pre |-> pre, post |-> post,
   promises |-> promises, disposals |-> disposals,
   ctxs |-> ctxs, proxies |-> proxies, trace |-> <<>>, fired |-> <<>>, cycle |-> FALSE]

\* ---------------------------------------------------------------- Registry
RegistryHas(h, c, t) == Len(h.registry[c][t]) > 0

RegistryGet(h, c, t) ==
  IF Len(h.registry[c][t]) > 0 THEN Last(h.registry[c][t]) ELSE 0

RegistryGetAll(h, c, t) == h.registry[c][t]

RegistrySet(h, c, t, registration) ==
  LET r == Len(h.regs) + 1 IN
  [h EXCEPT !.regs = Append(@, registration),
            !.registry[c][t] = Append(@, r)]

RegistrySetAll(h, c, t, rs) == [h EXCEPT !.registry[c][t] = rs]

RegistryClear(h, c) == [h EXCEPT !.registry[c] = EmptyRegistry]

\* entries(): the keys of the map that hold at least one registration. A key
\* left with an empty array is passed over, since the body of each loop over
\* the entries changes nothing for it.
RegistryEntries(h, c) == {t \in Tokens : h.registry[c][t] # <<>>}

\* ------------------------------------------------------- ensureNotDisposed
DisposedError == "disposed"
ensureNotDisposed(h, c) == ~h.containers[c].disposed

\* A thrown error is the sequence of its message's parts, outermost first: the
\* error itself, or the "Cannot inject the dependency ... at position #idx of
\* ctor" wrappers of resolveParams followed by the reason.  <<>> is no error.
NoErr == <<>>
Err(what) == <<[what |-> what, ctor |-> "", idx |-> 0]>>
Fail(h, what) == [h |-> h, v |-> Undefined, err |-> Err(what)]
Ok(h, v) == [h |-> h, v |-> v, err |-> NoErr]

\* ---------------------------------------------------------------- register
CycleError == "Token registration cycle detected!"
LifecycleError == "Cannot use lifecycle with ValueProviders or FactoryProviders"

\* A walk that looks no further than the token the provider names.
registerCycleWalkOneStep(h, c, path, currentToken) ==
  IF currentToken \in Range(path) THEN Append(path, currentToken) ELSE <<>>

\* The while loop of register: follows the useToken of the last registration
\* of each token in this container's own registry.  Yields the tokens of the
\* error message when the loop throws, <<>> when it ends.
RECURSIVE registerCycleWalk(_, _, _, _)
registerCycleWalk(h, c, path, currentToken) ==
  IF currentToken \in Range(path)
  THEN Append(path, currentToken)
  ELSE LET registration == RegistryGet(h, c, currentToken) IN
       IF registration # 0 /\ isTokenProvider(h.regs[registration].provider)
       THEN registerCycleWalk(h, c, Append(path, currentToken),
                              h.regs[registration].provider.tok)
       ELSE <<>>

\* A register that stores whatever provider and lifecycle it is given.
registerAnyLifecycle(h, c, token, providerOrConstructor, lifecycle) ==
  IF ~ensureNotDisposed(h, c)
  THEN [h |-> h, err |-> Err(DisposedError), msg |-> <<>>]
  ELSE
  LET provider == IF ~isProvider(providerOrConstructor)
                  THEN ClassProvider(providerOrConstructor.tok)
                  ELSE providerOrConstructor
      cyc == IF isTokenProvider(provider)
             THEN registerCycleWalk(h, c, <<token>>, provider.tok)
             ELSE <<>>
  IN
  IF cyc # <<>>
  THEN [h |-> h, err |-> Err(CycleError), msg |-> cyc]
  ELSE [h |-> RegistrySet(h, c, token,
                 [provider |-> provider, lifecycle |-> lifecycle,
                  instance |-> Undefined, home |-> c, copyOf |-> 0]),
        err |-> NoErr, msg |-> <<>>]

\* register(token, providerOrConstructor, options) on container c.
\* Yields [h, err, msg]: msg is the token chain of a cycle error.
register(h, c, token, providerOrConstructor, lifecycle) ==
  IF ~ensureNotDisposed(h, c)
  THEN [h |-> h, err |-> Err(DisposedError), msg |-> <<>>]
  ELSE
  LET provider == IF ~isProvider(providerOrConstructor)
                  THEN ClassProvider(providerOrConstructor.tok)
                  ELSE providerOrConstructor
      cyc == IF isTokenProvider(provider)
             THEN registerCycleWalk(h, c, <<token>>, provider.tok)
             ELSE <<>>
  IN
  IF cyc # <<>>
  THEN [h |-> h, err |-> Err(CycleError), msg |-> cyc]
  ELSE IF /\ lifecycle \in {Singleton, ContainerScoped, ResolutionScoped}
          /\ (isValueProvider(provider) \/ isFactoryProvider(provider))
  THEN [h |-> h, err |-> Err(LifecycleError), msg |-> <<>>]
  ELSE [h |-> RegistrySet(h, c, token,
                 [provider |-> provider, lifecycle |-> lifecycle,
                  instance |-> Undefined, home |-> c, copyOf |-> 0]),
        err |-> NoErr, msg |-> <<>>]

registerType(h, c, from, to) ==
  IF ~ensureNotDisposed(h, c)
  THEN [h |-> h, err |-> Err(DisposedError), msg |-> <<>>]
  ELSE IF isNormalToken(to)
  THEN register(h, c, from, TokenProvider(to), Transient)
  ELSE register(h, c, from, ClassProvider(to), Transient)

registerInstance(h, c, token, instance) ==
  IF ~ensureNotDisposed(h, c)
  THEN [h |-> h, err |-> Err(DisposedError), msg |-> <<>>]
  ELSE register(h, c, token, ValueProvider(instance), Transient)

SingletonToError == "Cannot register a type name as a singleton without a to token"

registerSingleton(h, c, from, to) ==
  IF ~ensureNotDisposed(h, c)
  THEN [h |-> h, err |-> Err(DisposedError), msg |-> <<>>]
  ELSE IF isNormalToken(from)
  THEN IF isNormalToken(to)
       THEN register(h, c, from, TokenProvider(to), Singleton)
       ELSE IF to # NoToken
       THEN register(h, c, from, ClassProvider(to), Singleton)
       ELSE [h |-> h, err |-> Err(SingletonToError), msg |-> <<>>]
  ELSE LET useClass == IF to # NoToken /\ ~isNormalToken(to) THEN to ELSE from
       IN register(h, c, from, ClassProvider(useClass), Singleton)

\* ---------------------------------------------------------------- typeInfo
\* Parameter descriptors (ParamInfo): a plain token, a TokenDescriptor
\* {token, multiple}, a TransformDescriptor {token, transform, transformArgs},
\* or a descriptor that is both.
Param(t) == [isTokenDescriptor |-> FALSE, isTransformDescriptor |-> FALSE, multiple |-> FALSE, token |-> t, transform |-> NoToken]
ParamAll(t) == [isTokenDescriptor |-> TRUE, isTransformDescriptor |-> FALSE, multiple |-> TRUE, token |-> t, transform |-> NoToken]
ParamOne(t) == [isTokenDescriptor |-> TRUE, isTransformDescriptor |-> FALSE, multiple |-> FALSE, token |-> t, transform |-> NoToken]
ParamTransform(t, x) == [isTokenDescriptor |-> FALSE, isTransformDescriptor |-> TRUE, multiple |-> FALSE, token |-> t, transform |-> x]
ParamAllTransform(t, x) == [isTokenDescriptor |-> TRUE, isTransformDescriptor |-> TRUE, multiple |-> TRUE, token |-> t, transform |-> x]
ParamOneTransform(t, x) == [isTokenDescriptor |-> TRUE, isTransformDescriptor |-> TRUE, multiple |-> FALSE, token |-> t, transform |-> x]

isTokenDescriptor(param) == param.isTokenDescriptor
isTransformDescriptor(param) == param.isTransformDescriptor

\* The typeInfo map: the parameter descriptors of each constructor of the
\* universe.  K0, K1 and KD take no parameter.  KA and KB take each other, KA
\* through a DelayedConstructor; KC and KE take each other, both through one.
typeInfo(ctor) ==
  CASE ctor = "KPair" -> <<Param("A"), Param("A")>>
    [] ctor = "KAll" -> <<Param("A"), ParamAll("A")>>
    [] ctor = "KTr" -> <<Param("A"), ParamTransform("A", "K1")>>
    [] ctor = "KTrAll" -> <<Param("A"), ParamAllTransform("A", "K1")>>
    [] ctor = "KTok" -> <<ParamOne("A"), ParamOneTransform("A", "K1")>>
    [] ctor = "KNeed" -> <<Param("K0"), Param("B")>>
    [] ctor = "KA" -> <<Param("A"), Param("delay(KB)")>>
    [] ctor = "KB" -> <<Param("KA"), Param("A")>>
    [] ctor = "KC" -> <<Param("delay(KE)")>>
    [] ctor = "KE" -> <<Param("delay(KC)")>>
    [] OTHER -> <<>>

\* ctor.length: the number of parameters the constructor declares.
ctorLength(ctor) == IF ctor = "KBare" THEN 1 ELSE Len(typeInfo(ctor))

\* isDisposable(instance): the instance has a dispose method.
isDisposable(cls) == cls \in {"KD", "KDThrows", "KDAsync"}

\* What the dispose method of an instance of the class does: it returns
\* nothing, it throws, or it returns a promise (settled later, either way).
teardown(cls) ==
  CASE cls = "KDThrows" -> "throws"
    [] cls = "KDAsync" -> "promise"
    [] OTHER -> "void"

\* A value that JavaScript's || treats as false: undefined, and the caller's
\* value -2 (which stands for null, 0 or the empty string).
Falsy(v) == v \in {Undefined, -2}

\* ------------------------------------------------------------ interceptors
InterceptorError == "interceptor callback threw"

\* The for loop of executePre/PostResolutionInterceptor over getAll(token):
\* yields the interceptors that remain and the error a callback threw.  A
\* callback is the caller's code: "noop" returns, "throw" throws, "register"
\* registers the constructor K1 for the token in the container it was added to.
RECURSIVE runInterceptors(_, _, _, _)
runInterceptors(h, all, i, remainingInterceptors) ==
  IF i > Len(all)
  THEN [h |-> h, remaining |-> remainingInterceptors, err |-> NoErr]
  ELSE LET interceptor == all[i]
           remaining == IF interceptor.frequency # "Once"
                        THEN Append(remainingInterceptors, interceptor)
                        ELSE remainingInterceptors
           h1 == [h EXCEPT !.fired = Append(@, interceptor.id)]
       IN IF interceptor.callback = "throw"
          THEN [h |-> h1, remaining |-> remaining, err |-> Err(InterceptorError)]
          ELSE IF interceptor.callback = "register"
          THEN runInterceptors(
                 register(h1, interceptor.c, interceptor.t, ClassProvider("K1"), Transient).h,
                 all, i + 1, remaining)
          ELSE runInterceptors(h1, all, i + 1, remaining)

executePreResolutionInterceptor(h, c, token, resolutionType) ==
  IF Len(h.pre[c][token]) > 0
  THEN LET run == runInterceptors(h, h.pre[c][token], 1, <<>>) IN
       IF run.err # NoErr
       THEN [h |-> run.h, v |-> Undefined, err |-> run.err]
       ELSE Ok([run.h EXCEPT !.pre[c][token] = run.remaining], Undefined)
  ELSE Ok(h, Undefined)

executePostResolutionInterceptor(h, c, token, result, resolutionType) ==
  IF Len(h.post[c][token]) > 0
  THEN LET run == runInterceptors(h, h.post[c][token], 1, <<>>) IN
       IF run.err # NoErr
       THEN [h |-> run.h, v |-> Undefined, err |-> run.err]
       ELSE Ok([run.h EXCEPT !.post[c][token] = run.remaining], Undefined)
  ELSE Ok(h, Undefined)

\* ------------------------------------------------------------ registration lookup
\* isRegistered(token, recursive): [err, v].
RECURSIVE isRegistered(_, _, _, _)
isRegistered(h, c, token, recursive) ==
  IF ~ensureNotDisposed(h, c)
  THEN [err |-> Err(DisposedError), v |-> FALSE]
  ELSE IF RegistryHas(h, c, token)
  THEN [err |-> NoErr, v |-> TRUE]
  ELSE IF recursive /\ h.containers[c].parent # 0
  THEN isRegistered(h, h.containers[c].parent, token, TRUE)
  ELSE [err |-> NoErr, v |-> FALSE]

\* A lookup that prefers the parent's registration to the container's own.
RECURSIVE getRegistrationParentFirst(_, _, _)
getRegistrationParentFirst(h, c, token) ==
  LET own == isRegistered(h, c, token, FALSE)
      above == IF h.containers[c].parent # 0
               THEN getRegistrationParentFirst(h, h.containers[c].parent, token)
               ELSE [err |-> NoErr, reg |-> 0]
  IN
  IF own.err # NoErr THEN [err |-> own.err, reg |-> 0]
  ELSE IF above.reg # 0 THEN above
  ELSE IF own.v THEN [err |-> NoErr, reg |-> RegistryGet(h, c, token)]
  ELSE [err |-> NoErr, reg |-> 0]

\* getRegistration(token): [err, reg]; reg 0 is null.
RECURSIVE getRegistration(_, _, _)
getRegistration(h, c, token) ==
  LET own == isRegistered(h, c, token, FALSE) IN
  IF own.err # NoErr THEN [err |-> own.err, reg |-> 0]
  ELSE IF own.v THEN [err |-> NoErr, reg |-> RegistryGet(h, c, token)]
  ELSE IF h.containers[c].parent # 0
  THEN getRegistration(h, h.containers[c].parent, token)
  ELSE [err |-> NoErr, reg |-> 0]

\* getAllRegistrations(token): [err, found, regs]; found FALSE is null.
RECURSIVE getAllRegistrations(_, _, _)
getAllRegistrations(h, c, token) ==
  LET own == isRegistered(h, c, token, FALSE) IN
  IF own.err # NoErr THEN [err |-> own.err, found |-> FALSE, regs |-> <<>>]
  ELSE IF own.v
  THEN [err |-> NoErr, found |-> TRUE, regs |-> RegistryGetAll(h, c, token)]
  ELSE IF h.containers[c].parent # 0
  THEN getAllRegistrations(h, h.containers[c].parent, token)
  ELSE [err |-> NoErr, found |-> FALSE, regs |-> <<>>]

\* ----------------------------------------------------------------- resolve
UnregisteredError == "Attempted to resolve unregistered dependency token"
UndefinedCtorError == "Attempted to construct an undefined constructor"
TypeInfoError == "TypeInfo not known"
StackOverflow == "Maximum call stack size exceeded"

\* new ResolutionContext(): scopedResolutions is an empty map, here a function
\* from registration objects to values.
NewResolutionContext == [r \in {} |-> Undefined]

\* The context a call works with: the one handed in, or (context = 0) the
\* default argument, a new ResolutionContext.
WithContext(h, context) ==
  IF context = 0
  THEN [h |-> [h EXCEPT !.ctxs = Append(@, NewResolutionContext)], ctx |-> Len(h.ctxs) + 1]
  ELSE [h |-> h, ctx |-> context]

\* A factory function called with the container: the caller's code.  "fresh"
\* builds a new object on every call, "shared" hands out the same value (-3).
useFactory(h, c, f) ==
  IF f = "fresh"
  THEN Ok([h EXCEPT !.insts = Append(@, [cls |-> "Object", args |-> <<>>, by |-> c, disposeCalls |-> 0])],
          Len(h.insts) + 1)
  ELSE Ok(h, -3)

\* The functions of the resolution engine call one another.  A call is a
\* frame handed to Call, which runs the function the frame names; this_f(...)
\* is the call this.f(...).
RECURSIVE Call(_)
Frame(fn, h, c, context, d) ==
  [fn |-> fn, h |-> h, c |-> c, context |-> context, d |-> d, token |-> NoToken,
   path |-> <<>>, registration |-> 0, registrations |-> <<>>, i |-> 0,
   ctor |-> NoToken, param |-> Param(NoToken), paramInfo |-> <<>>, acc |-> <<>>]

this_resolve(h, c, token, context, d, path) ==
  Call([Frame("resolve", h, c, context, d) EXCEPT !.token = token, !.path = path])

this_resolveAll(h, c, token, context, d) ==
  Call([Frame("resolveAll", h, c, context, d) EXCEPT !.token = token])

this_resolveRegistration(h, c, registration, context, d, path) ==
  Call([Frame("resolveRegistration", h, c, context, d) EXCEPT
          !.registration = registration, !.path = path])

this_construct(h, c, ctor, context, d) ==
  Call([Frame("construct", h, c, context, d) EXCEPT !.ctor = ctor])

this_resolveParams(h, c, context, ctor, param, idx, d) ==
  Call([Frame("resolveParams", h, c, context, d) EXCEPT
          !.ctor = ctor, !.param = param, !.i = idx])

this_mapResolveParams(h, c, context, ctor, paramInfo, idx, acc, d) ==
  Call([Frame("mapResolveParams", h, c, context, d) EXCEPT
          !.ctor = ctor, !.paramInfo = paramInfo, !.i = idx, !.acc = acc])

this_mapResolveRegistration(h, c, registrations, i, acc, context, d, path) ==
  Call([Frame("mapResolveRegistration", h, c, context, d) EXCEPT
          !.registrations = registrations, !.i = i, !.acc = acc, !.path = path])

\* Lines 420-426 of resolveRegistration: a ResolutionScoped registration's
\* value is stored in the context; the value is returned.
scopedResolutionsSet(resolved, registration, context, scoped) ==
  IF resolved.err # NoErr THEN resolved
  ELSE
  LET h1 == IF scoped
            THEN [resolved.h EXCEPT !.ctxs[context] =
                    [r \in DOMAIN @ \cup {registration} |->
                       IF r = registration THEN resolved.v ELSE @[r]]]
            ELSE resolved.h
  IN Ok([h1 EXCEPT !.trace = Append(@, [reg |-> registration, v |-> resolved.v])],
        resolved.v)

\* An assignment registration.instance = made under every lifecycle.
instanceSetAlways(made, registration, returnInstance) ==
  IF made.err # NoErr THEN made
  ELSE Ok([made.h EXCEPT !.regs[registration].instance = made.v], made.v)

\* registration.instance = made (lines 400 and 409), when returnInstance.
instanceSet(made, registration, returnInstance) ==
  IF made.err # NoErr \/ ~returnInstance THEN made
  ELSE Ok([made.h EXCEPT !.regs[registration].instance = made.v], made.v)

\* resolveRegistration(registration, context) on container c.  d is the room
\* left on the call stack; path holds the tokens whose Token providers led here.
resolveRegistration(h, c, registration, context, d, path) ==
  LET reg == h.regs[registration]
      scoped == reg.lifecycle = ResolutionScoped
      isSingleton == reg.lifecycle = Singleton
      isContainerScoped == reg.lifecycle = ContainerScoped
      returnInstance == isSingleton \/ isContainerScoped
  IN
  IF ~ensureNotDisposed(h, c) THEN Fail(h, DisposedError)
  ELSE IF scoped /\ registration \in DOMAIN h.ctxs[context]
  THEN Ok([h EXCEPT !.trace = Append(@, [reg |-> registration, v |-> h.ctxs[context][registration]])],
          h.ctxs[context][registration])
  ELSE scopedResolutionsSet(
         IF isValueProvider(reg.provider) THEN Ok(h, reg.provider.val)
         ELSE IF isTokenProvider(reg.provider) \/ isClassProvider(reg.provider)
         THEN IF returnInstance /\ ~Falsy(reg.instance)
              THEN Ok(h, reg.instance)
              ELSE instanceSet(
                     IF isTokenProvider(reg.provider)
                     THEN this_resolve(h, c, reg.provider.tok, context, d, path)
                     ELSE this_construct(h, c, reg.provider.tok, context, d),
                     registration, returnInstance)
         ELSE IF isFactoryProvider(reg.provider) THEN useFactory(h, c, reg.provider.tok)
         ELSE this_construct(h, c, reg.provider.tok, context, d),
         registration, context, scoped)

\* Lines 313-316 and 322-324 of resolve: the post-resolution interceptors run
\* on the result, which is returned.
resolved(c, token, result) ==
  IF result.err # NoErr THEN result
  ELSE LET after == executePostResolutionInterceptor(result.h, c, token, result.v, "Single")
       IN IF after.err # NoErr THEN after ELSE Ok(after.h, result.v)

\* resolve(token, context) on container c.  context 0: the argument is omitted.
resolve(h0, c, token, context, d, path) ==
  LET w == WithContext(h0, context)
      h == w.h
      found == getRegistration(h, c, token)
      registration == found.reg
      before == executePreResolutionInterceptor(h, c, token, "Single")
  IN
  IF d = 0 THEN Fail(h0, StackOverflow)
  ELSE IF token \in Range(path) THEN Fail([h0 EXCEPT !.cycle = TRUE], StackOverflow)
  ELSE IF ~ensureNotDisposed(h, c) THEN Fail(h, DisposedError)
  ELSE IF found.err # NoErr THEN [h |-> h, v |-> Undefined, err |-> found.err]
  ELSE IF registration = 0 /\ isNormalToken(token) THEN Fail(h, UnregisteredError)
  ELSE IF before.err # NoErr THEN before
  ELSE IF registration # 0
  THEN resolved(c, token,
         this_resolveRegistration(before.h, c, registration, w.ctx, d - 1, Append(path, token)))
  ELSE IF isConstructorToken(token)
  THEN resolved(c, token, this_construct(before.h, c, token, w.ctx, d - 1))
  ELSE Fail(before.h, UndefinedCtorError)

\* registrations.map(item => this.resolveRegistration(item, context)): the
\* step for item i, with the items before it in acc.
mapResolveRegistrationItem(one, c, registrations, i, acc, context, d, path) ==
  IF one.err # NoErr THEN [h |-> one.h, v |-> <<>>, err |-> one.err]
  ELSE this_mapResolveRegistration(one.h, c, registrations, i + 1, Append(acc, one.v), context, d, path)

\* A map that visits the registrations from the last to the first.
mapResolveRegistrationBackwards(h, c, registrations, i, acc, context, d, path) ==
  IF i > Len(registrations) THEN Ok(h, acc)
  ELSE mapResolveRegistrationItem(
         this_resolveRegistration(h, c, registrations[Len(registrations) + 1 - i], context, d, path),
         c, registrations, i, acc, context, d, path)

mapResolveRegistration(h, c, registrations, i, acc, context, d, path) ==
  IF i > Len(registrations) THEN Ok(h, acc)
  ELSE mapResolveRegistrationItem(
         this_resolveRegistration(h, c, registrations[i], context, d, path),
         c, registrations, i, acc, context, d, path)

\* Lines 450-451 and 456-457 of resolveAll: the post-resolution interceptors
\* run on the result, which is returned.
resolvedAll(c, token, result) ==
  IF result.err # NoErr THEN [h |-> result.h, v |-> <<>>, err |-> result.err]
  ELSE LET after == executePostResolutionInterceptor(result.h, c, token, result.v, "All")
       IN IF after.err # NoErr THEN [h |-> after.h, v |-> <<>>, err |-> after.err]
          ELSE Ok(after.h, result.v)

\* [this.construct(token, context)]
arrayOf(made) == [h |-> made.h, v |-> <<made.v>>, err |-> made.err]

\* resolveAll(token, context) on container c: the value is a sequence.
resolveAll(h0, c, token, context, d) ==
  LET w == WithContext(h0, context)
      h == w.h
      found == getAllRegistrations(h, c, token)
      before == executePreResolutionInterceptor(h, c, token, "All")
  IN
  IF d = 0 THEN [h |-> h0, v |-> <<>>, err |-> Err(StackOverflow)]
  ELSE IF ~ensureNotDisposed(h, c) THEN [h |-> h, v |-> <<>>, err |-> Err(DisposedError)]
  ELSE IF found.err # NoErr THEN [h |-> h, v |-> <<>>, err |-> found.err]
  ELSE IF ~found.found /\ isNormalToken(token)
  THEN [h |-> h, v |-> <<>>, err |-> Err(UnregisteredError)]
  ELSE IF before.err # NoErr THEN [h |-> before.h, v |-> <<>>, err |-> before.err]
  ELSE IF found.found
  THEN resolvedAll(c, token,
         this_mapResolveRegistration(before.h, c, found.regs, 1, <<>>, w.ctx, d - 1, <<token>>))
  ELSE resolvedAll(c, token, arrayOf(this_construct(before.h, c, token, w.ctx, d - 1)))

\* The value of a parameter is [tr, subs]: the transform object whose
\* transform method was applied (0: none) and the resolved value(s) it was
\* applied to, or the resolved value(s) themselves.
paramOne(tr, r) == [h |-> r.h, v |-> [tr |-> tr, subs |-> <<r.v>>], err |-> r.err]
paramAll(tr, r) == [h |-> r.h, v |-> [tr |-> tr, subs |-> r.v], err |-> r.err]

\* this.resolve(param.transform, ...).transform(subject, ...transformArgs),
\* the transform object t resolved: the subject is resolved next (resolveAll
\* without a context when all, resolve with the context otherwise).
transform(t, c, context, param, all, d) ==
  IF t.err # NoErr THEN [h |-> t.h, v |-> [tr |-> 0, subs |-> <<>>], err |-> t.err]
  ELSE IF all THEN paramAll(t.v, this_resolveAll(t.h, c, param.token, 0, d))
  ELSE paramOne(t.v, this_resolve(t.h, c, param.token, context, d, <<>>))

\* A catch that throws the error it caught.
formatErrorRethrown(got, ctor, idx) == got

\* catch (e) { throw new Error(formatErrorCtor(ctor, idx, e)) }
formatErrorCtor(got, ctor, idx) ==
  IF got.err # NoErr
  THEN [got EXCEPT !.err = <<[what |-> "Cannot inject the dependency", ctor |-> ctor, idx |-> idx]>> \o @]
  ELSE got

\* The function resolveParams(context, ctor) returns, applied to (param, idx).
resolveParams(h, c, context, ctor, param, idx, d) ==
  formatErrorCtor(
    IF isTokenDescriptor(param)
    THEN IF isTransformDescriptor(param)
         THEN transform(this_resolve(h, c, param.transform, 0, d, <<>>),
                        c, context, param, param.multiple, d)
         ELSE IF param.multiple
              THEN paramAll(0, this_resolveAll(h, c, param.token, 0, d))
              ELSE paramOne(0, this_resolve(h, c, param.token, context, d, <<>>))
    ELSE IF isTransformDescriptor(param)
    THEN transform(this_resolve(h, c, param.transform, context, d, <<>>),
                   c, context, param, FALSE, d)
    ELSE paramOne(0, this_resolve(h, c, param.token, context, d, <<>>)),
    ctor, idx)

\* paramInfo.map(this.resolveParams(context, ctor)): the step for parameter
\* idx (counted from 0), with the parameters before it in acc.
mapResolveParamsItem(one, c, context, ctor, paramInfo, idx, acc, d) ==
  IF one.err # NoErr THEN [h |-> one.h, v |-> <<>>, err |-> one.err]
  ELSE this_mapResolveParams(one.h, c, context, ctor, paramInfo, idx + 1, Append(acc, one.v), d)

mapResolveParams(h, c, context, ctor, paramInfo, idx, acc, d) ==
  IF idx >= Len(paramInfo) THEN Ok(h, acc)
  ELSE mapResolveParamsItem(
         this_resolveParams(h, c, context, ctor, paramInfo[idx + 1], idx, d),
         c, context, ctor, paramInfo, idx, acc, d)

\* A construction whose disposable instance joins the disposables of the
\* root container.
constructedForRoot(params, c, ctor) ==
  IF params.err # NoErr THEN [h |-> params.h, v |-> Undefined, err |-> params.err]
  ELSE
  LET instance == Len(params.h.insts) + 1
      built == [params.h EXCEPT !.insts = Append(@, [cls |-> ctor, args |-> params.v, by |-> c, disposeCalls |-> 0])]
  IN IF isDisposable(ctor)
     THEN Ok([built EXCEPT !.disposables[1] = Append(@, instance)], instance)
     ELSE Ok(built, instance)

\* A construction that hands out the instance of the class made earlier, if
\* there is one.
constructedOnce(params, c, ctor) ==
  IF params.err # NoErr THEN [h |-> params.h, v |-> Undefined, err |-> params.err]
  ELSE IF \E k \in DOMAIN params.h.insts : params.h.insts[k].cls = ctor
  THEN Ok(params.h, CHOOSE k \in DOMAIN params.h.insts : params.h.insts[k].cls = ctor)
  ELSE Ok([params.h EXCEPT !.insts = Append(@, [cls |-> ctor, args |-> params.v, by |-> c, disposeCalls |-> 0])],
          Len(params.h.insts) + 1)

\* Lines 630-639 of construct: new ctor(...params); a disposable instance
\* joins the disposables of this container.
constructed(params, c, ctor) ==
  IF params.err # NoErr THEN [h |-> params.h, v |-> Undefined, err |-> params.err]
  ELSE
  LET instance == Len(params.h.insts) + 1
      built == [params.h EXCEPT !.insts = Append(@, [cls |-> ctor, args |-> params.v, by |-> c, disposeCalls |-> 0])]
  IN IF isDisposable(ctor)
     THEN Ok([built EXCEPT !.disposables[c] = Append(@, instance)], instance)
     ELSE Ok(built, instance)

\* DelayedConstructor.createProxy(createObject): a new proxy that has not
\* called createObject yet.  createObject is the callback
\* (target) => container.resolve(target, context), kept as [c, context].
createProxy(h, delayed, createObject) ==
  LET instance == Len(h.insts) + 1 IN
  Ok([h EXCEPT !.insts = Append(@, [cls |-> "Proxy", args |-> <<>>, by |-> createObject.c,
                                    disposeCalls |-> 0]),
               !.proxies = Append(@, [inst |-> instance, delayed |-> delayed,
                                      c |-> createObject.c, context |-> createObject.context,
                                      init |-> FALSE, value |-> Undefined])],
     instance)

\* A construct whose proxy callback is (target) => this.resolve(target).
constructWithoutContext(h, c, ctor, context, d) ==
  LET paramInfo == typeInfo(ctor) IN
  IF d = 0 THEN Fail(h, StackOverflow)
  ELSE IF ctor \in DelayedConstructors
  THEN createProxy(h, ctor, [c |-> c, context |-> 0])
  ELSE IF Len(paramInfo) = 0
  THEN IF ctorLength(ctor) = 0
       THEN constructed(Ok(h, <<>>), c, ctor)
       ELSE Fail(h, TypeInfoError)
  ELSE constructed(this_mapResolveParams(h, c, context, ctor, paramInfo, 0, <<>>, d - 1), c, ctor)

\* construct(ctor, context) on container c.
construct(h, c, ctor, context, d) ==
  LET paramInfo == typeInfo(ctor) IN
  IF d = 0 THEN Fail(h, StackOverflow)
  ELSE IF ctor \in DelayedConstructors
  THEN createProxy(h, ctor, [c |-> c, context |-> context])
  ELSE IF Len(paramInfo) = 0
  THEN IF ctorLength(ctor) = 0
       THEN constructed(Ok(h, <<>>), c, ctor)
       ELSE Fail(h, TypeInfoError)
  ELSE constructed(this_mapResolveParams(h, c, context, ctor, paramInfo, 0, <<>>, d - 1), c, ctor)

Call(f) ==
  CASE f.fn = "resolve" -> resolve(f.h, f.c, f.token, f.context, f.d, f.path)
    [] f.fn = "resolveAll" -> resolveAll(f.h, f.c, f.token, f.context, f.d)
    [] f.fn = "resolveRegistration" ->
         resolveRegistration(f.h, f.c, f.registration, f.context, f.d, f.path)
    [] f.fn = "construct" -> construct(f.h, f.c, f.ctor, f.context, f.d)
    [] f.fn = "resolveParams" ->
         resolveParams(f.h, f.c, f.context, f.ctor, f.param, f.i, f.d)
    [] f.fn = "mapResolveParams" ->
         mapResolveParams(f.h, f.c, f.context, f.ctor, f.paramInfo, f.i, f.acc, f.d)
    [] f.fn = "mapResolveRegistration" ->
         mapResolveRegistration(f.h, f.c, f.registrations, f.i, f.acc, f.context, f.d, f.path)

\* The first use of a proxy calls createObject with the wrapped constructor
\* and keeps the object it returns; every later use hands that object out.
delayedObjectKept(made, p) ==
  IF made.err # NoErr THEN made
  ELSE Ok([made.h EXCEPT !.proxies[p].init = TRUE, !.proxies[p].value = made.v], made.v)

delayedObject(h, p) ==
  IF h.proxies[p].init THEN Ok(h, h.proxies[p].value)
  ELSE delayedObjectKept(
         this_resolve(h, h.proxies[p].c, wrap(h.proxies[p].delayed), h.proxies[p].context,
                      MaxDepth, <<>>), p)

\* ------------------------------------------------- reset / clearInstances
reset(h, c) ==
  IF ~ensureNotDisposed(h, c) THEN Fail(h, DisposedError)
  ELSE Ok([RegistryClear(h, c) EXCEPT !.pre[c] = EmptyRegistry, !.post[c] = EmptyRegistry],
          Undefined)

\* A clearing that keeps the cached instance of Container-scoped registrations.
clearInstancesOfSingletons(h, c, token) ==
  LET registrations == h.registry[c][token]
      kept == SelectSeq(registrations, LAMBDA r : ~isValueProvider(h.regs[r].provider))
      cleared == [r \in DOMAIN h.regs |->
                    IF r \in Range(kept) /\ h.regs[r].lifecycle # ContainerScoped
                    THEN [h.regs[r] EXCEPT !.instance = Undefined]
                    ELSE h.regs[r]]
  IN RegistrySetAll([h EXCEPT !.regs = cleared], c, token, kept)

\* The body of the loop of clearInstances for one token: the Value provider
\* registrations leave the sequence, the instance of each registration object
\* that stays is set to undefined.
clearInstancesOf(h, c, token) ==
  LET registrations == h.registry[c][token]
      kept == SelectSeq(registrations, LAMBDA r : ~isValueProvider(h.regs[r].provider))
      cleared == [r \in DOMAIN h.regs |->
                    IF r \in Range(kept)
                    THEN [h.regs[r] EXCEPT !.instance = Undefined]
                    ELSE h.regs[r]]
  IN RegistrySetAll([h EXCEPT !.regs = cleared], c, token, kept)

\* for (const [token, registrations] of this._registry.entries()) ...
RECURSIVE clearInstancesLoop(_, _, _)
clearInstancesLoop(h, c, tokens) ==
  IF tokens = {} THEN h
  ELSE LET token == CHOOSE t \in tokens : TRUE
       IN clearInstancesLoop(clearInstancesOf(h, c, token), c, tokens \ {token})

clearInstances(h, c) ==
  IF ~ensureNotDisposed(h, c) THEN Fail(h, DisposedError)
  ELSE Ok(clearInstancesLoop(h, c, RegistryEntries(h, c)), Undefined)

\* ---------------------------------------------------- createChildContainer
\* A copy that carries the Container-scoped registration's cached instance
\* over to the child.
RECURSIVE copyRegistrationsWithInstance(_, _, _)
copyRegistrationsWithInstance(h, registrations, i) ==
  IF i > Len(registrations) THEN [h |-> h, v |-> <<>>]
  ELSE LET registration == registrations[i]
           isCS == h.regs[registration].lifecycle = ContainerScoped
           h1 == IF isCS
                 THEN [h EXCEPT !.regs = Append(@, [h.regs[registration] EXCEPT
                                                      !.home = Len(h.containers),
                                                      !.copyOf = registration])]
                 ELSE h
           item == IF isCS THEN Len(h1.regs) ELSE registration
           rest == copyRegistrationsWithInstance(h1, registrations, i + 1)
       IN [h |-> rest.h, v |-> <<item>> \o rest.v]

\* The body of the loop of createChildContainer for one token; the child is
\* the newest container.
RECURSIVE copyRegistrations(_, _, _)
\* registrations.map(...): a ContainerScoped registration becomes a new object
\* {provider, options}; any other registration object is handed on as it is.
copyRegistrations(h, registrations, i) ==
  IF i > Len(registrations) THEN [h |-> h, v |-> <<>>]
  ELSE LET registration == registrations[i]
           isCS == h.regs[registration].lifecycle = ContainerScoped
           h1 == IF isCS
                 THEN [h EXCEPT !.regs = Append(@, [provider |-> h.regs[registration].provider,
                                                    lifecycle |-> h.regs[registration].lifecycle,
                                                    instance |-> Undefined,
                                                    home |-> Len(h.containers),
                                                    copyOf |-> registration])]
                 ELSE h
           item == IF isCS THEN Len(h1.regs) ELSE registration
           rest == copyRegistrations(h1, registrations, i + 1)
       IN [h |-> rest.h, v |-> <<item>> \o rest.v]

createChildContainerOf(h, c, token) ==
  LET registrations == h.registry[c][token]
      childContainer == Len(h.containers)
  IN IF \E i \in DOMAIN registrations : h.regs[registrations[i]].lifecycle = ContainerScoped
     THEN LET copied == copyRegistrations(h, registrations, 1)
          IN RegistrySetAll(copied.h, childContainer, token, copied.v)
     ELSE h

\* for (const [token, registrations] of this._registry.entries()) ...
RECURSIVE createChildContainerLoop(_, _, _)
createChildContainerLoop(h, c, tokens) ==
  IF tokens = {} THEN h
  ELSE LET token == CHOOSE t \in tokens : TRUE
       IN createChildContainerLoop(createChildContainerOf(h, c, token), c, tokens \ {token})

createChildContainer(h, c) ==
  IF ~ensureNotDisposed(h, c) THEN Fail(h, DisposedError)
  ELSE LET born == [h EXCEPT !.containers = Append(@, [parent |-> c, disposed |-> FALSE]),
                             !.registry = Append(@, EmptyRegistry),
                             !.pre = Append(@, EmptyRegistry),
                             !.post = Append(@, EmptyRegistry),
                             !.disposables = Append(@, <<>>)]
       IN Ok(createChildContainerLoop(born, c, RegistryEntries(born, c)), Len(born.containers))

\* --------------------------------------- beforeResolution / afterResolution
\* id names the interceptor object.
beforeResolution(h, c, token, callback, frequency, id) ==
  Ok([h EXCEPT !.pre[c][token] = Append(@, [id |-> id, callback |-> callback, frequency |-> frequency,
                                            c |-> c, t |-> token])],
     Undefined)

afterResolution(h, c, token, callback, frequency, id) ==
  Ok([h EXCEPT !.post[c][token] = Append(@, [id |-> id, callback |-> callback, frequency |-> frequency,
                                             c |-> c, t |-> token])],
     Undefined)

\* ----------------------------------------------------------------- dispose
TeardownError == "teardown failed"

\* this.disposables.forEach(disposable => ...): the teardown of each tracked
\* instance is invoked in insertion order and the promises they return are
\* collected; a teardown that throws ends the loop.
RECURSIVE forEachDisposable(_, _, _, _)
forEachDisposable(h, ds, i, collected) ==
  IF i > Len(ds) THEN [h |-> h, v |-> collected, err |-> NoErr]
  ELSE LET called == [h EXCEPT !.insts[ds[i]].disposeCalls = @ + 1]
           maybePromise == teardown(h.insts[ds[i]].cls)
       IN IF maybePromise = "throws"
          THEN [h |-> called, v |-> collected, err |-> Err(TeardownError)]
          ELSE IF maybePromise = "promise"
          THEN forEachDisposable(
                 [called EXCEPT !.promises = Append(@, [of |-> ds[i], state |-> "pending"])],
                 ds, i + 1, Append(collected, Len(h.promises) + 1))
          ELSE forEachDisposable(called, ds, i + 1, collected)

\* A join that settles as soon as one of the promises does.
promiseRace(ps, waits) ==
  IF \E k \in DOMAIN waits : ps[waits[k]].state = "rejected" THEN "rejected"
  ELSE IF waits = <<>> \/ \E k \in DOMAIN waits : ps[waits[k]].state = "fulfilled" THEN "fulfilled"
  ELSE "pending"

\* Promise.all(waits): rejected once one of the promises is, fulfilled once
\* all are, pending until then.
promiseAll(ps, waits) ==
  IF \E k \in DOMAIN waits : ps[waits[k]].state = "rejected" THEN "rejected"
  ELSE IF \A k \in DOMAIN waits : ps[waits[k]].state = "fulfilled" THEN "fulfilled"
  ELSE "pending"

\* dispose() up to its await: the value is the promise the call returns, an
\* index of disposals.  The promise is rejected when a teardown threw, and
\* otherwise settles as Promise.all of the collected promises does.
dispose(h, c) ==
  LET h1 == [h EXCEPT !.containers[c].disposed = TRUE]
      r == forEachDisposable(h1, h1.disposables[c], 1, <<>>)
  IN Ok([r.h EXCEPT !.disposals =
           Append(@, [c |-> c, tracked |-> h.disposables[c], waits |-> r.v, err |-> r.err,
                      state |-> IF r.err # NoErr THEN "rejected"
                                ELSE promiseAll(r.h.promises, r.v)])],
        Len(h.disposals) + 1)

\* A promise a teardown returned settles; await Promise.all(promises) resumes
\* the dispose calls that settles.
settle(h, p, outcome) ==
  LET ps == [h.promises EXCEPT ![p].state = outcome] IN
  [h EXCEPT !.promises = ps,
            !.disposals = [k \in DOMAIN h.disposals |->
                             IF h.disposals[k].state = "pending"
                             THEN [h.disposals[k] EXCEPT
                                     !.state = promiseAll(ps, h.disposals[k].waits)]
                             ELSE h.disposals[k]]]

\* ------------------------------------------------------------------ actions
NoProvider == [kind |-> "", tok |-> NoToken, val |-> Undefined]

\* The record of one call: what was called with which arguments, and what
\* came of it.  reg / all: the registration(s) the lookup of the call found;
\* val: the value(s) returned; made: the container createChildContainer
\* returned; flag: the answer of isRegistered.
Entry(op, c, token) ==
  [op |-> op, c |-> c, t |-> token, to |-> NoToken, provider |-> NoProvider,
   lifecycle |-> "", err |-> NoErr, msg |-> <<>>, val |-> <<>>, reg |-> 0,
   all |-> <<>>, trace |-> <<>>, fired |-> <<>>, cycle |-> FALSE, made |-> 0,
   flag |-> FALSE, callback |-> "", frequency |-> "", scoped |-> {}, built |-> {}]

Commit(h, e) ==
  /\ containers' = h.containers
  /\ registry' = h.registry
  /\ regs' = h.regs
  /\ insts' = h.insts
  /\ disposables' = h.disposables
  /\ pre' = h.pre
  /\ post' = h.post
  /\ promises' = h.promises
  /\ disposals' = h.disposals
  /\ ctxs' = IF h.proxies = <<>> THEN <<>> ELSE h.ctxs
  /\ proxies' = h.proxies
  /\ log' = Append(log, e)

Register(c, token, p, lifecycle) ==
  LET r == register(Heap, c, token, p, lifecycle) IN
  Commit(r.h, [Entry("register", c, token) EXCEPT
                 !.provider = p, !.lifecycle = lifecycle, !.err = r.err, !.msg = r.msg])

RegisterType(c, from, to) ==
  LET r == registerType(Heap, c, from, to) IN
  Commit(r.h, [Entry("registerType", c, from) EXCEPT !.to = to, !.err = r.err, !.msg = r.msg])

RegisterInstance(c, token, v) ==
  LET r == registerInstance(Heap, c, token, v) IN
  Commit(r.h, [Entry("registerInstance", c, token) EXCEPT
                 !.provider = ValueProvider(v), !.err = r.err, !.msg = r.msg])

RegisterSingleton(c, from, to) ==
  LET r == registerSingleton(Heap, c, from, to) IN
  Commit(r.h, [Entry("registerSingleton", c, from) EXCEPT !.to = to, !.err = r.err, !.msg = r.msg])

\* The call returned (or threw) r: the state it left is the new state.
\* The registrations whose value the call stored in a ResolutionContext.
scopedResolutionsOf(h) ==
  {r \in DOMAIN h.regs :
     \E i \in DOMAIN h.ctxs :
       r \in DOMAIN h.ctxs[i] /\ (i \in DOMAIN ctxs => r \notin DOMAIN ctxs[i])}

Returned(r, e) ==
  Commit(r.h, [e EXCEPT !.err = r.err, !.val = IF r.err = NoErr THEN r.v ELSE <<>>,
                        !.trace = r.h.trace, !.fired = r.h.fired, !.cycle = r.h.cycle,
                        !.scoped = scopedResolutionsOf(r.h),
                        !.built = {k \in DOMAIN r.h.insts : k \notin DOMAIN insts}])

Resolve(c, token) ==
  Returned(arrayOf(this_resolve(Heap, c, token, 0, MaxDepth, <<>>)),
           [Entry("resolve", c, token) EXCEPT !.reg = getRegistration(Heap, c, token).reg])

ResolveAll(c, token) ==
  Returned(this_resolveAll(Heap, c, token, 0, MaxDepth),
           [Entry("resolveAll", c, token) EXCEPT !.all = getAllRegistrations(Heap, c, token).regs])

IsRegistered(c, token, recursive) ==
  LET r == isRegistered(Heap, c, token, recursive) IN
  Commit(Heap, [Entry("isRegistered", c, token) EXCEPT !.err = r.err, !.flag = r.v])

Reset(c) ==
  LET r == reset(Heap, c) IN
  Commit(r.h, [Entry("reset", c, NoToken) EXCEPT !.err = r.err])

ClearInstances(c) ==
  LET r == clearInstances(Heap, c) IN
  Commit(r.h, [Entry("clearInstances", c, NoToken) EXCEPT !.err = r.err])

CreateChildContainer(c) ==
  LET r == createChildContainer(Heap, c) IN
  /\ Len(containers) < MaxContainers
  /\ Commit(r.h, [Entry("createChildContainer", c, NoToken) EXCEPT !.err = r.err, !.made = r.v])

BeforeResolution(c, token, callback, frequency) ==
  LET r == beforeResolution(Heap, c, token, callback, frequency, Len(log) + 1) IN
  Commit(r.h, [Entry("beforeResolution", c, token) EXCEPT
                 !.err = r.err, !.callback = callback, !.frequency = frequency])

AfterResolution(c, token, callback, frequency) ==
  LET r == afterResolution(Heap, c, token, callback, frequency, Len(log) + 1) IN
  Commit(r.h, [Entry("afterResolution", c, token) EXCEPT
                 !.err = r.err, !.callback = callback, !.frequency = frequency])

Dispose(c) ==
  LET r == dispose(Heap, c) IN
  Commit(r.h, [Entry("dispose", c, NoToken) EXCEPT !.err = r.err, !.made = r.v])

\* The promise p, returned by a teardown, is fulfilled or rejected.
Settle(p, outcome) ==
  LET h == settle(Heap, p, outcome) IN
  /\ promises[p].state = "pending"
  /\ promises' = h.promises
  /\ disposals' = h.disposals
  /\ UNCHANGED <<containers, registry, regs, insts, disposables, pre, post, ctxs, proxies, log>>

\* A member of the proxy p is read: the proxy hands the access on to the
\* object of delayedObject.  flag: the proxy had that object already.
Access(p) ==
  Returned(arrayOf(delayedObject(Heap, p)),
           [Entry("access", proxies[p].c, proxies[p].delayed) EXCEPT
              !.made = p, !.flag = proxies[p].init])

\* --------------------------------------------------------------------- Init
\* export const instance = new InternalDependencyContainer(): the root
\* container, with nothing registered.
Init ==
  /\ containers = <<[parent |-> 0, disposed |-> FALSE]>>
  /\ registry = <<EmptyRegistry>>
  /\ regs = <<>>
  /\ insts = <<>>
  /\ disposables = << <<>> >>
  /\ pre = <<EmptyRegistry>>
  /\ post = <<EmptyRegistry>>
  /\ promises = <<>>
  /\ disposals = <<>>
  /\ ctxs = <<>>
  /\ proxies = <<>>
  /\ log = <<>>

\* The containers a call may be made on, while the sequence of calls may grow.
Callable(max) == IF Len(log) < max THEN DOMAIN containers ELSE {}
Containers == Callable(MaxOps)

\* ---------------------------------------------------------- specifications
\* Spec: registrations of every provider kind under one token, resolved one
\* by one and all together.
SpecProviders ==
  {ClassProvider("K0"), BareCtor("K1"), TokenProvider("B"), ValueProvider(-1),
   FactoryProvider("fresh"), FactoryProvider("shared")}

RegisterAny ==
  \E c \in Containers, p \in SpecProviders : Register(c, "A", p, Transient)

RegisterTarget ==
  \E c \in Containers : Register(c, "B", ClassProvider("K0"), Singleton)

ResolveAny == \E c \in Containers : Resolve(c, "A")

ResolveAllAny == \E c \in Containers : ResolveAll(c, "A")

ClearAny == \E c \in Containers : ClearInstances(c)

ChildAny == \E c \in Containers : CreateChildContainer(c)

Next ==
  \/ RegisterAny
  \/ RegisterTarget
  \/ ResolveAny
  \/ ResolveAllAny
  \/ ClearAny
  \/ ChildAny

Spec == Init /\ [][Next]_vars

\* SpecAlias: Token providers among three plain tokens, in a container and
\* its child, with Value registrations and clearInstances in between.
AliasContainers == Callable(MaxOps)

RegisterAlias ==
  \E c \in AliasContainers, t \in NormalTokens, u \in NormalTokens :
    Register(c, t, TokenProvider(u), Transient)

RegisterValue ==
  \E c \in AliasContainers, t \in NormalTokens : RegisterInstance(c, t, -1)

ClearAlias == \E c \in AliasContainers : ClearInstances(c)

ChildAlias == \E c \in AliasContainers : CreateChildContainer(c)

ResolveAlias == \E c \in AliasContainers : Resolve(c, "A")

NextAlias ==
  \/ RegisterAlias
  \/ RegisterValue
  \/ ClearAlias
  \/ ChildAlias
  \/ ResolveAlias

SpecAlias == Init /\ [][NextAlias]_vars

\* The last registration of token x in container c's own registry is a Token
\* provider for token y.
AliasTo(c, x, y) ==
  /\ registry[c][x] # <<>>
  /\ regs[Last(registry[c][x])].provider = TokenProvider(y)

\* The call e is register(z, {useToken: x}) on a container in which x is
\* registered as an alias of y and y as an alias of z.
ClosesCycle(e, x, y, z) ==
  /\ e.op = "register" /\ e.t = z /\ e.provider = TokenProvider(x)
  /\ x # y /\ y # z /\ x # z
  /\ AliasTo(e.c, x, y) /\ AliasTo(e.c, y, z)

\* C4 as stated: with A an alias of B and B an alias of C, register(C,
\* useToken A) fails with a cycle error that names A -> B -> C -> A, and
\* leaves the registry as it was.
C4_StepAsStated ==
  LET e == Last(log') IN
  log' = Append(log, e) =>
    \A x, y, z \in NormalTokens :
      ClosesCycle(e, x, y, z) =>
        /\ e.err = Err(CycleError)
        /\ e.msg = <<x, y, z, x>>
        /\ registry' = registry /\ regs' = regs

C4_CycleNamedFromA == [][C4_StepAsStated]_vars

\* C4 (amended): with A an alias of B and B an alias of C, register(C,
\* useToken A) fails with a cycle error that names the chain from the token
\* being registered, C -> A -> B -> C, and leaves the registry as it was.
C4_Step ==
  LET e == Last(log') IN
  log' = Append(log, e) =>
    \A x, y, z \in NormalTokens :
      ClosesCycle(e, x, y, z) =>
        /\ e.err = Err(CycleError)
        /\ e.msg = <<z, x, y, z>>
        /\ registry' = registry /\ regs' = regs

C4_CycleNamedFromRegistered == [][C4_Step]_vars

\* register(C, useToken A) was refused where A was an alias of B, B an alias
\* of C and C had no registration.
C4_Witness ==
  \E i \in DOMAIN log :
    /\ log[i].op = "register" /\ log[i].t = "C"
    /\ log[i].provider = TokenProvider("A")
    /\ log[i].err = Err(CycleError)
    /\ Len(log[i].msg) = 4
    /\ AliasTo(log[i].c, "A", "B") /\ AliasTo(log[i].c, "B", "C")
    /\ registry[log[i].c]["C"] = <<>>

\* C5 as stated: no resolve follows Token providers back to a token it is
\* already resolving.
C5_ResolveNeverCycles ==
  \A i \in DOMAIN log : log[i].op = "resolve" => ~log[i].cycle

\* SpecScope: one token with a Container-scoped and a Singleton class
\* registration, in a container and its children, with clearInstances and
\* reset.
ScopeContainers == Callable(MaxScopeOps)

RegisterScoped ==
  \E c \in ScopeContainers : Register(c, "A", ClassProvider("K0"), ContainerScoped)

RegisterShared ==
  \E c \in ScopeContainers : Register(c, "A", ClassProvider("K1"), Singleton)

ResolveScope == \E c \in ScopeContainers : Resolve(c, "A")

ClearScope == \E c \in ScopeContainers : ClearInstances(c)

ResetScope == \E c \in ScopeContainers : Reset(c)

ChildScope == \E c \in ScopeContainers : CreateChildContainer(c)

NextScope ==
  \/ RegisterScoped
  \/ RegisterShared
  \/ ResolveScope
  \/ ClearScope
  \/ ResetScope
  \/ ChildScope

SpecScope == Init /\ [][NextScope]_vars

\* SpecShared: the same token and registrations over longer runs, without
\* reset.
SharedContainers == Callable(MaxSharedOps)

RegisterScopedS ==
  \E c \in SharedContainers : Register(c, "A", ClassProvider("K0"), ContainerScoped)

RegisterSharedS ==
  \E c \in SharedContainers : Register(c, "A", ClassProvider("K1"), Singleton)

ResolveS == \E c \in SharedContainers : Resolve(c, "A")

ClearS == \E c \in SharedContainers : ClearInstances(c)

ChildS == \E c \in SharedContainers : CreateChildContainer(c)

NextShared ==
  \/ RegisterScopedS
  \/ RegisterSharedS
  \/ ResolveS
  \/ ClearS
  \/ ChildS

SpecShared == Init /\ [][NextShared]_vars

\* SpecCtx: a Resolution-scoped token injected into constructors through
\* every kind of parameter descriptor.
CtxContainers == Callable(MaxOps)

CtxCtors == {"KPair", "KAll", "KTr", "KTrAll", "KTok"}

RegisterResolutionScoped ==
  \E c \in CtxContainers : Register(c, "A", ClassProvider("K0"), ResolutionScoped)

RegisterTransient ==
  \E c \in CtxContainers : Register(c, "A", ClassProvider("K0"), Transient)

ResolveCtor == \E c \in CtxContainers, k \in CtxCtors : Resolve(c, k)

ResolveAllCtx == \E c \in CtxContainers : ResolveAll(c, "A")

NextCtx ==
  \/ RegisterResolutionScoped
  \/ RegisterTransient
  \/ ResolveCtor
  \/ ResolveAllCtx

SpecCtx == Init /\ [][NextCtx]_vars

\* SpecDisposed: every public operation, on a container and its child, with
\* dispose.
DisposedContainers == Callable(MaxDisposedOps)

DRegister == \E c \in DisposedContainers : Register(c, "A", ClassProvider("KD"), Singleton)

DRegisterType == \E c \in DisposedContainers : RegisterType(c, "B", "A")

DRegisterInstance == \E c \in DisposedContainers : RegisterInstance(c, "C", -1)

DRegisterSingleton == \E c \in DisposedContainers : RegisterSingleton(c, "K0", NoToken)

DResolve == \E c \in DisposedContainers : Resolve(c, "A")

DResolveAll == \E c \in DisposedContainers : ResolveAll(c, "A")

DIsRegistered == \E c \in DisposedContainers : IsRegistered(c, "A", TRUE)

DReset == \E c \in DisposedContainers : Reset(c)

DClearInstances == \E c \in DisposedContainers : ClearInstances(c)

DCreateChildContainer == \E c \in DisposedContainers : CreateChildContainer(c)

DBeforeResolution == \E c \in DisposedContainers : BeforeResolution(c, "A", "noop", "Always")

DAfterResolution == \E c \in DisposedContainers : AfterResolution(c, "A", "noop", "Once")

DDispose == \E c \in DisposedContainers : Dispose(c)

NextDisposed ==
  \/ DRegister
  \/ DRegisterType
  \/ DRegisterInstance
  \/ DRegisterSingleton
  \/ DResolve
  \/ DResolveAll
  \/ DIsRegistered
  \/ DReset
  \/ DClearInstances
  \/ DCreateChildContainer
  \/ DBeforeResolution
  \/ DAfterResolution
  \/ DDispose

SpecDisposed == Init /\ [][NextDisposed]_vars

\* SpecTeardown: disposables whose teardown returns nothing, throws or returns
\* a promise, constructed on a container and its child, and dispose.
TeardownContainers == Callable(MaxTeardownOps)

TResolve ==
  \E c \in TeardownContainers, k \in {"KD", "KDThrows", "KDAsync"} : Resolve(c, k)

TDispose == \E c \in TeardownContainers : Dispose(c)

TChild == \E c \in TeardownContainers : CreateChildContainer(c)

TSettle == \E p \in DOMAIN promises, outcome \in {"fulfilled", "rejected"} : Settle(p, outcome)

NextTeardown ==
  \/ TResolve
  \/ TDispose
  \/ TChild
  \/ TSettle

SpecTeardown == Init /\ [][NextTeardown]_vars

\* SpecLifecycle: every kind of provider registered with every lifecycle, on
\* a container and its child.
LifecycleContainers == Callable(MaxLifecycleOps)

LifecycleProviders ==
  {ValueProvider(-1), FactoryProvider("fresh"), ClassProvider("K0"), TokenProvider("B")}

LRegister ==
  \E c \in LifecycleContainers, p \in LifecycleProviders, l \in Lifecycle :
    Register(c, "A", p, l)

LRegisterInstance == \E c \in LifecycleContainers : RegisterInstance(c, "A", -1)

LRegisterSingleton == \E c \in LifecycleContainers : RegisterSingleton(c, "A", "K0")

LClearInstances == \E c \in LifecycleContainers : ClearInstances(c)

LChild == \E c \in LifecycleContainers : CreateChildContainer(c)

NextLifecycle ==
  \/ LRegister
  \/ LRegisterInstance
  \/ LRegisterSingleton
  \/ LClearInstances
  \/ LChild

SpecLifecycle == Init /\ [][NextLifecycle]_vars

\* SpecClear: cached and Value registrations, an alias and an interceptor, on
\* a container and its child, with clearInstances.
ClearContainers == Callable(MaxClearOps)

CRegisterClass ==
  \E c \in ClearContainers, l \in {Singleton, ContainerScoped} :
    Register(c, "A", ClassProvider("K0"), l)

CRegisterAlias == \E c \in ClearContainers : Register(c, "A", TokenProvider("B"), Singleton)

CRegisterInstance == \E c \in ClearContainers : RegisterInstance(c, "B", -1)

CResolve == \E c \in ClearContainers : Resolve(c, "A")

CClearInstances == \E c \in ClearContainers : ClearInstances(c)

CBeforeResolution == \E c \in ClearContainers : BeforeResolution(c, "A", "noop", "Always")

CChild == \E c \in ClearContainers : CreateChildContainer(c)

NextClear ==
  \/ CRegisterClass
  \/ CRegisterAlias
  \/ CRegisterInstance
  \/ CResolve
  \/ CClearInstances
  \/ CBeforeResolution
  \/ CChild

SpecClear == Init /\ [][NextClear]_vars

\* SpecSingleton: registerSingleton with every combination of a plain
\* identifier or a constructor as from and a plain identifier, a constructor
\* or nothing as to.
SingletonContainers == Callable(MaxSingletonOps)

SRegisterSingleton ==
  \E c \in SingletonContainers, from \in {"A", "B", "K0"}, to \in {"A", "B", "K0", "K1", NoToken} :
    RegisterSingleton(c, from, to)

SResolve == \E c \in SingletonContainers, t \in {"A", "K0"} : Resolve(c, t)

NextSingleton ==
  \/ SRegisterSingleton
  \/ SResolve

SpecSingleton == Init /\ [][NextSingleton]_vars

\* Constructors that take each other through DelayedConstructors: A is
\* registered for the constructor K0, per resolution or per call, in a
\* container or its child; the constructors and a DelayedConstructor are
\* resolved, and the proxies are used.
DelayedContainers == Callable(MaxDelayedOps)
MutualCtors == {"KA", "KB", "KC", "KE"}

YRegister ==
  \E c \in DelayedContainers, lifecycle \in {Transient, ResolutionScoped} :
    Register(c, "A", ClassProvider("K0"), lifecycle)

YResolve == \E c \in DelayedContainers, t \in MutualCtors \cup {"delay(KB)"} : Resolve(c, t)

YAccess == \E p \in DOMAIN proxies : Len(log) < MaxDelayedOps /\ Access(p)

YChild == \E c \in DelayedContainers : CreateChildContainer(c)

NextDelayed ==
  \/ YRegister
  \/ YResolve
  \/ YAccess
  \/ YChild

SpecDelayed == Init /\ [][NextDelayed]_vars

\* A container and its children: A is registered per container and as a
\* singleton, and every operation is called on every container.
ChildContainers == Callable(MaxChildOps)

HRegister ==
  \E c \in ChildContainers, lifecycle \in {ContainerScoped, Singleton} :
    Register(c, "A", ClassProvider("K0"), lifecycle)

HRegisterType == \E c \in ChildContainers : RegisterType(c, "B", "A")

HRegisterInstance == \E c \in ChildContainers : RegisterInstance(c, "A", -1)

HRegisterSingleton == \E c \in ChildContainers : RegisterSingleton(c, "A", "K1")

HResolve == \E c \in ChildContainers : Resolve(c, "A")

HResolveAll == \E c \in ChildContainers : ResolveAll(c, "A")

HClearInstances == \E c \in ChildContainers : ClearInstances(c)

HReset == \E c \in ChildContainers : Reset(c)

HDispose == \E c \in ChildContainers : Dispose(c)

HChild == \E c \in ChildContainers : CreateChildContainer(c)

NextChild ==
  \/ HRegister
  \/ HRegisterType
  \/ HRegisterInstance
  \/ HRegisterSingleton
  \/ HResolve
  \/ HResolveAll
  \/ HClearInstances
  \/ HReset
  \/ HDispose
  \/ HChild

SpecChild == Init /\ [][NextChild]_vars

\* Interceptors: callbacks that return, that throw and that register are added,
\* with either frequency, for the plain identifier A and the constructor K0; A
\* is registered; both tokens are resolved.
InterceptContainers == Callable(MaxInterceptOps)
InterceptedTokens == {"A", "K0"}
Callbacks == {"noop", "throw", "register"}
Frequencies == {"Always", "Once"}

IBeforeResolution ==
  \E c \in InterceptContainers, t \in InterceptedTokens, callback \in Callbacks,
     frequency \in Frequencies :
    BeforeResolution(c, t, callback, frequency)

IAfterResolution ==
  \E c \in InterceptContainers, t \in InterceptedTokens, callback \in Callbacks,
     frequency \in Frequencies :
    AfterResolution(c, t, callback, frequency)

IRegister == \E c \in InterceptContainers : Register(c, "A", ClassProvider("K0"), Transient)

IResolve == \E c \in InterceptContainers, t \in InterceptedTokens : Resolve(c, t)

IResolveAll == \E c \in InterceptContainers, t \in InterceptedTokens : ResolveAll(c, t)

NextIntercept ==
  \/ IBeforeResolution
  \/ IAfterResolution
  \/ IRegister
  \/ IResolve
  \/ IResolveAll

SpecIntercept == Init /\ [][NextIntercept]_vars

\* A parameter that cannot be resolved: KNeed takes K0 and B, KPair takes A
\* twice.  A is registered for KNeed with every lifecycle, B is registered
\* late or never, and A, KNeed and KPair are resolved.
FailContainers == Callable(MaxFailOps)

FRegister ==
  \E c \in FailContainers, lifecycle \in Lifecycle :
    Register(c, "A", ClassProvider("KNeed"), lifecycle)

FRegisterParam == \E c \in FailContainers : Register(c, "B", ClassProvider("K0"), Transient)

FResolve == \E c \in FailContainers, t \in {"A", "KNeed", "KPair"} : Resolve(c, t)

FResolveAll == \E c \in FailContainers : ResolveAll(c, "A")

NextFail ==
  \/ FRegister
  \/ FRegisterParam
  \/ FResolve
  \/ FResolveAll

SpecFail == Init /\ [][NextFail]_vars

\* The cached instance: A is registered for K0 with every lifecycle, in a
\* container and its child; a post-resolution interceptor that throws is
\* added; A is resolved and the instances are cleared.
CacheContainers == Callable(MaxCacheOps)

GRegister ==
  \E c \in CacheContainers, lifecycle \in Lifecycle :
    Register(c, "A", ClassProvider("K0"), lifecycle)

GAfterResolution == \E c \in CacheContainers : AfterResolution(c, "A", "throw", "Always")

GResolve == \E c \in CacheContainers : Resolve(c, "A")

GResolveAll == \E c \in CacheContainers : ResolveAll(c, "A")

GClearInstances == \E c \in CacheContainers : ClearInstances(c)

GChild == \E c \in CacheContainers : CreateChildContainer(c)

NextCache ==
  \/ GRegister
  \/ GAfterResolution
  \/ GResolve
  \/ GResolveAll
  \/ GClearInstances
  \/ GChild

SpecCache == Init /\ [][NextCache]_vars

\* The owner of a disposable: A is registered for the disposable KD, as a
\* singleton or not, in a container or its child; A and KPair, which takes A
\* twice, are resolved on either; either is disposed.
OwnerContainers == Callable(MaxOwnerOps)

ORegister ==
  \E c \in OwnerContainers, lifecycle \in {Singleton, Transient} :
    Register(c, "A", ClassProvider("KD"), lifecycle)

OResolve == \E c \in OwnerContainers, t \in {"A", "KPair"} : Resolve(c, t)

OResolveAll == \E c \in OwnerContainers : ResolveAll(c, "A")

ODispose == \E c \in OwnerContainers : Dispose(c)

OChild == \E c \in OwnerContainers : CreateChildContainer(c)

NextOwner ==
  \/ ORegister
  \/ OResolve
  \/ OResolveAll
  \/ ODispose
  \/ OChild

SpecOwner == Init /\ [][NextOwner]_vars

\* ------------------------------------------------------------- the claims
\* Helpers to speak about the calls made so far.
Indices(n) == [k \in 1..n |-> k]

Succeeded(e) == e.err = NoErr

\* The provider object register stores for the provider or constructor given.
Stored(p) == IF p.kind = "ctor" THEN ClassProvider(p.tok) ELSE p

\* The call log[i] is a resolve that returned a value through a registration.
ResolvedVia(i) == log[i].op = "resolve" /\ Succeeded(log[i]) /\ log[i].reg # 0

\* No successful clearInstances or reset on container c among the calls
\* log[i+1] .. log[j-1].
NoClearBetween(c, i, j) ==
  \A k \in DOMAIN log :
    (i < k /\ k < j /\ log[k].c = c /\ Succeeded(log[k]))
      => log[k].op \notin {"clearInstances", "reset"}

\* C2 as stated: two resolve calls of a token whose registration is Transient
\* with a Class, Factory or Token provider return distinct instances.
C2_AnyTransientDistinct ==
  \A i, j \in DOMAIN log :
    (/\ i < j /\ ResolvedVia(i) /\ ResolvedVia(j)
     /\ log[i].t = log[j].t
     /\ \A r \in {log[i].reg, log[j].reg} :
          regs[r].lifecycle = Transient /\ ~isValueProvider(regs[r].provider))
      => log[i].val # log[j].val

\* C2 (amended): two resolve calls of a token whose registration is Transient
\* with a Class provider return distinct instances.
C2_TransientClassDistinct ==
  \A i, j \in DOMAIN log :
    (/\ i < j /\ ResolvedVia(i) /\ ResolvedVia(j)
     /\ log[i].t = log[j].t
     /\ \A r \in {log[i].reg, log[j].reg} :
          regs[r].lifecycle = Transient /\ isClassProvider(regs[r].provider))
      => log[i].val # log[j].val

C2_Witness ==
  \E i, j \in DOMAIN log :
    /\ i < j /\ ResolvedVia(i) /\ ResolvedVia(j)
    /\ log[i].t = log[j].t /\ log[i].reg = log[j].reg
    /\ regs[log[i].reg].lifecycle = Transient
    /\ isClassProvider(regs[log[i].reg].provider)
    /\ log[i].val # log[j].val

\* The successful register calls for token t on container c before call i,
\* in the order they were made.
RegisterCalls(c, t, i) ==
  SelectSeq(Indices(i - 1),
            LAMBDA j : /\ log[j].op \in {"register", "registerInstance"}
                       /\ log[j].c = c /\ log[j].t = t /\ Succeeded(log[j]))

\* The value v is what a registration with provider p yields.
Produces(p, v) ==
  CASE isValueProvider(p) -> v = p.val
    [] isClassProvider(p) -> v \in DOMAIN insts /\ insts[v].cls = p.tok
    [] isFactoryProvider(p) /\ p.tok = "fresh" -> v \in DOMAIN insts /\ insts[v].cls = "Object"
    [] isFactoryProvider(p) -> v = -3
    [] OTHER -> v # Undefined

\* C6: for a token with n >= 1 registrations made by n successful register
\* calls on a container (none evicted by clearInstances or reset, none copied
\* from a parent), resolveAll returns exactly n values, the k-th produced by
\* the registration the k-th register call made.
C6_ResolveAllInOrder ==
  \A i \in DOMAIN log :
    LET e == log[i]
        calls == RegisterCalls(e.c, e.t, i)
        mine == SelectSeq(e.trace, LAMBDA x : x.reg \in Range(e.all))
    IN (/\ e.op = "resolveAll" /\ Succeeded(e)
        /\ Len(calls) >= 1
        /\ NoClearBetween(e.c, 0, i)
        /\ \A k \in DOMAIN e.all : regs[e.all[k]].copyOf = 0)
         => /\ Len(e.val) = Len(calls)
            /\ Len(e.all) = Len(calls)
            /\ Len(mine) = Len(calls)
            /\ \A k \in DOMAIN calls :
                 /\ regs[e.all[k]].provider = Stored(log[calls[k]].provider)
                 /\ mine[k] = [reg |-> e.all[k], v |-> e.val[k]]
                 /\ Produces(regs[e.all[k]].provider, e.val[k])

C6_Witness ==
  \E i \in DOMAIN log :
    LET e == log[i]
        calls == RegisterCalls(e.c, e.t, i)
    IN /\ e.op = "resolveAll" /\ Succeeded(e)
       /\ Len(calls) = 3 /\ Len(e.val) = 3
       /\ NoClearBetween(e.c, 0, i)
       /\ log[calls[1]].provider # log[calls[2]].provider
       /\ log[calls[2]].provider # log[calls[3]].provider
       /\ e.val[1] # e.val[2] /\ e.val[2] # e.val[3]

\* The containers from c up to the root.
RECURSIVE Lineage(_)
Lineage(c) ==
  IF containers[c].parent = 0 THEN <<c>> ELSE <<c>> \o Lineage(containers[c].parent)

\* The containers of c's lineage whose own registry holds a registration of t.
Holders(c, t) == SelectSeq(Lineage(c), LAMBDA x : registry[x][t] # <<>>)

\* C7: a successful register appends one registration to the token's sequence
\* in the container's registry and leaves every other registration in place;
\* a resolve that returns through a registration returns what the last
\* registration of the token in the nearest container holding any yields.
C7_Step ==
  LET e == Last(log') IN
  log' = Append(log, e) =>
    /\ (e.op = "register" /\ Succeeded(e)) =>
         /\ regs' = Append(regs, [provider |-> Stored(e.provider), lifecycle |-> e.lifecycle,
                                  instance |-> Undefined, home |-> e.c, copyOf |-> 0])
         /\ registry' = [registry EXCEPT ![e.c][e.t] = Append(@, Len(regs) + 1)]
    /\ (e.op = "resolve" /\ Succeeded(e) /\ Holders(e.c, e.t) # <<>>) =>
         /\ e.trace # <<>>
         /\ Last(e.trace).reg = Last(registry[Head(Holders(e.c, e.t))][e.t])
         /\ Last(e.trace).v = e.val[1]

C7_AppendsAndResolvesLast == [][C7_Step]_vars

\* A child container with no registration of the token resolved it through
\* the later of two different registrations held by its parent, and both are
\* still in the parent's registry.
C7_Witness ==
  \E i \in DOMAIN log :
    /\ ResolvedVia(i)
    /\ containers[log[i].c].parent # 0
    /\ registry[log[i].c][log[i].t] = <<>>
    /\ LET held == registry[containers[log[i].c].parent][log[i].t] IN
       /\ Len(held) = 2
       /\ held[2] = log[i].reg
       /\ regs[held[1]].provider # regs[held[2]].provider

\* C1 as stated: two resolve calls that return through the same Singleton
\* registration return the identical instance, as long as clearInstances or
\* reset is not called on the registering container between them.
C1_SingletonIdentical ==
  \A i, j \in DOMAIN log :
    (/\ i < j /\ ResolvedVia(i) /\ ResolvedVia(j)
     /\ log[i].t = log[j].t /\ log[i].reg = log[j].reg
     /\ regs[log[i].reg].lifecycle = Singleton
     /\ NoClearBetween(regs[log[i].reg].home, i, j))
      => log[i].val = log[j].val

\* C3 as stated: within one top-level resolve call, every sub-resolution
\* through one Resolution-scoped registration returns the identical instance.
C3_OneInstancePerCall ==
  \A i \in DOMAIN log :
    log[i].op = "resolve" =>
      \A x, y \in DOMAIN log[i].trace :
        (/\ log[i].trace[x].reg = log[i].trace[y].reg
         /\ regs[log[i].trace[x].reg].lifecycle = ResolutionScoped)
          => log[i].trace[x].v = log[i].trace[y].v

\* No successful clearInstances or reset call has been made on any container.
NeverCleared ==
  \A k \in DOMAIN log :
    Succeeded(log[k]) => log[k].op \notin {"clearInstances", "reset"}

\* C8 as stated: where a parent's registration of X is Container-scoped,
\* whatever the order of register(X) and createChildContainer, a resolve of X
\* on a child returns an instance distinct from the one a resolve on the
\* parent returns, and two resolves on the child return the same instance.
C8_ChildAlwaysOwnInstance ==
  \A i, j \in DOMAIN log :
    (/\ ResolvedVia(i) /\ ResolvedVia(j) /\ log[i].t = log[j].t
     /\ containers[log[i].c].parent # 0
     /\ NeverCleared
     /\ LET held == registry[containers[log[i].c].parent][log[i].t] IN
        /\ held # <<>>
        /\ regs[Last(held)].lifecycle = ContainerScoped
        /\ \A r \in Range(held) : regs[r].lifecycle = ContainerScoped)
      => /\ log[j].c = containers[log[i].c].parent => log[i].val # log[j].val
         /\ log[j].c = log[i].c => log[i].val = log[j].val

\* C8 (amended): a resolve on a child through the Container-scoped class
\* registration the child copied from its parent when it was created returns
\* an instance distinct from every instance a resolve of the token on the
\* parent returns, and later resolves on the child through that registration
\* return the same instance as long as clearInstances is not called on the
\* child in between.
C8_CopiedScopeOwnInstance ==
  \A i \in DOMAIN log :
    LET r == log[i].reg
        c == log[i].c
    IN (/\ ResolvedVia(i)
        /\ regs[r].copyOf # 0 /\ regs[r].home = c
        /\ regs[r].lifecycle = ContainerScoped
        /\ isClassProvider(regs[r].provider))
         => \A j \in DOMAIN log :
              /\ (/\ ResolvedVia(j) /\ log[j].t = log[i].t
                  /\ log[j].c = containers[c].parent)
                   => log[j].val # log[i].val
              /\ (/\ i < j /\ ResolvedVia(j) /\ log[j].c = c /\ log[j].reg = r
                  /\ NoClearBetween(c, i, j))
                   => log[j].val = log[i].val

\* The parent resolved the token through its Container-scoped registration,
\* and a child created after that registration resolved the token twice
\* through its copy: one instance both times, not the parent's.
C8_Witness ==
  \E i, j, k \in DOMAIN log :
    /\ ResolvedVia(i) /\ ResolvedVia(j) /\ ResolvedVia(k)
    /\ j < k /\ log[j].c = log[k].c /\ log[j].reg = log[k].reg
    /\ log[i].c = containers[log[j].c].parent
    /\ log[i].t = log[j].t /\ log[j].t = log[k].t
    /\ regs[log[j].reg].copyOf = log[i].reg
    /\ regs[log[i].reg].lifecycle = ContainerScoped
    /\ log[j].val = log[k].val /\ log[i].val # log[j].val

\* C9 as stated: a Singleton token registered only on the parent resolves to
\* the same instance from the parent and from a descendant, also when the
\* token's registrations were copied into the descendant (clearInstances and
\* reset of the parent aside).
C9_SingletonSharedWithDescendants ==
  \A i, j \in DOMAIN log :
    LET r == log[i].reg
        parent == regs[r].home
    IN (/\ i < j /\ ResolvedVia(i) /\ ResolvedVia(j)
        /\ log[i].t = log[j].t /\ log[j].reg = r
        /\ regs[r].lifecycle = Singleton
        /\ log[i].c # log[j].c /\ parent \in {log[i].c, log[j].c}
        /\ \A k \in DOMAIN log :
             (log[k].op = "register" /\ log[k].t = log[i].t) => log[k].c = parent
        /\ NoClearBetween(parent, i, j))
         => log[i].val = log[j].val

\* C10 as stated: a call on a disposed container fails with the
\* disposed-container error and changes no state.
C10_Step ==
  LET e == Last(log') IN
  log' = Append(log, e) =>
    (containers[e.c].disposed =>
       /\ e.err = Err(DisposedError)
       /\ UNCHANGED <<containers, registry, regs, insts, disposables, pre, post,
                    promises, disposals>>)

C10_DisposedRefusesAll == [][C10_Step]_vars

\* The dispose calls made on container c up to the k-th dispose call overall
\* whose loop over the disposables ran to its end.
LoopsRun(c, k) == {j \in 1..k : disposals[j].c = c /\ disposals[j].err = NoErr}

\* C11: when the promise a dispose() call returned is fulfilled, the teardown
\* of every instance tracked by the container has been invoked by that call,
\* every promise a teardown returned to it is fulfilled, and none is pending.
C11_CompletesAfterTeardowns ==
  \A k \in DOMAIN disposals :
    LET d == disposals[k] IN
    d.state = "fulfilled" =>
      /\ d.err = NoErr
      /\ \A x \in Range(d.tracked) :
           /\ insts[x].disposeCalls >= Cardinality(LoopsRun(d.c, k))
           /\ teardown(insts[x].cls) = "promise" =>
                \E w \in Range(d.waits) : promises[w].of = x
      /\ \A w \in Range(d.waits) : promises[w].state = "fulfilled"

\* A dispose() call on a container tracking two instances with asynchronous
\* teardowns and one with a synchronous teardown is fulfilled.
C11_Witness ==
  \E k \in DOMAIN disposals :
    LET d == disposals[k] IN
    /\ d.state = "fulfilled"
    /\ Len(d.waits) = 2 /\ Len(d.tracked) = 3
    /\ \A w \in Range(d.waits) : promises[w].state = "fulfilled"

\* C12 as stated: a dispose() call invokes the teardown of every instance the
\* container tracks, also when one of the teardowns fails, and a failure
\* rejects the promise the call returned.
C12_Step ==
  LET e == Last(log') IN
  (log' = Append(log, e) /\ e.op = "dispose") =>
    /\ \A x \in Range(disposables[e.c]) :
         insts'[x].disposeCalls = insts[x].disposeCalls + 1
    /\ (\E x \in Range(disposables[e.c]) : teardown(insts[x].cls) = "throws")
         => disposals'[e.made].state = "rejected"

C12_EveryTeardownInvoked == [][C12_Step]_vars

\* No registry holds a Value or Factory registration whose lifecycle is not
\* Transient.
OnlyTransientValuesAndFactories ==
  \A c \in DOMAIN registry :
    \A t \in Tokens :
      \A r \in Range(registry[c][t]) :
        (isValueProvider(regs[r].provider) \/ isFactoryProvider(regs[r].provider))
          => regs[r].lifecycle = Transient

\* A register call with a Value or Factory provider and the Singleton,
\* Container-scoped or Resolution-scoped lifecycle fails with the
\* configuration error and leaves the registry as it was.
RejectsScopedValuesAndFactories ==
  LET e == Last(log') IN
  (/\ log' = Append(log, e) /\ e.op = "register"
   /\ ~containers[e.c].disposed
   /\ e.provider.kind \in {"value", "factory"}
   /\ e.lifecycle \in {Singleton, ContainerScoped, ResolutionScoped})
    => /\ e.err = Err(LifecycleError)
       /\ registry' = registry /\ regs' = regs

\* C13: register rejects every Value or Factory provider combined with the
\* Singleton, Container-scoped or Resolution-scoped lifecycle and leaves the
\* registry unchanged; no registry of any container, copies made for children
\* included, ever holds such a registration.
C13_ScopedValuesRejected ==
  []OnlyTransientValuesAndFactories /\ [][RejectsScopedValuesAndFactories]_vars

\* A Factory provider with the Container-scoped lifecycle was refused on a
\* child container that holds a registration copied from its parent.
C13_Witness ==
  \E i \in DOMAIN log :
    /\ log[i].op = "register" /\ log[i].err = Err(LifecycleError)
    /\ log[i].provider = FactoryProvider("fresh")
    /\ log[i].lifecycle = ContainerScoped
    /\ containers[log[i].c].parent # 0
    /\ \E r \in Range(registry[log[i].c]["A"]) : regs[r].copyOf # 0

\* What a successful clearInstances call e does to the registries: the Value
\* registrations leave the sequences of the container, the registration
\* objects that stay there lose their cached instance and keep provider,
\* lifecycle and order, and nothing else changes.
ClearsOnlyInstances(e) ==
  LET kept(t) == SelectSeq(registry[e.c][t], LAMBDA r : ~isValueProvider(regs[r].provider))
  IN /\ \A t \in Tokens : registry'[e.c][t] = kept(t)
     /\ \A c \in DOMAIN registry : c # e.c => registry'[c] = registry[c]
     /\ DOMAIN regs' = DOMAIN regs
     /\ \A r \in DOMAIN regs :
          regs'[r] = IF \E t \in Tokens : r \in Range(kept(t))
                     THEN [regs[r] EXCEPT !.instance = Undefined]
                     ELSE regs[r]
     /\ UNCHANGED <<containers, insts, disposables, pre, post, promises, disposals>>

\* The call e is a resolve that directly follows a successful clearInstances
\* on the same container and returns, of a token whose last registration in
\* that container's registry is Singleton or Container-scoped with a provider
\* of one of the kinds given.
ResolveAfterClear(e, kinds) ==
  /\ e.op = "resolve" /\ Succeeded(e) /\ log # <<>>
  /\ Last(log).op = "clearInstances" /\ Succeeded(Last(log)) /\ Last(log).c = e.c
  /\ registry[e.c][e.t] # <<>>
  /\ regs[Last(registry[e.c][e.t])].lifecycle \in {Singleton, ContainerScoped}
  /\ regs[Last(registry[e.c][e.t])].provider.kind \in kinds

\* The call e returned an instance constructed during the call.
ConstructedAnew(e) ==
  /\ e.val[1] \in DOMAIN insts' /\ e.val[1] \notin DOMAIN insts

\* C14 as stated: clearInstances removes the Value registrations, clears the
\* cached instances and changes nothing else, and the next resolve of a
\* Singleton or Container-scoped token constructs a new instance.
C14_StepAsStated ==
  LET e == Last(log') IN
  log' = Append(log, e) =>
    /\ (e.op = "clearInstances" /\ Succeeded(e)) => ClearsOnlyInstances(e)
    /\ ResolveAfterClear(e, {"class", "token"}) => ConstructedAnew(e)

C14_NextResolveConstructs == [][C14_StepAsStated]_vars

\* C14 (amended): clearInstances removes the Value registrations, clears the
\* cached instances and changes nothing else, and the next resolve of a token
\* whose last registration is Singleton or Container-scoped with a Class
\* provider constructs a new instance.
C14_Step ==
  LET e == Last(log') IN
  log' = Append(log, e) =>
    /\ (e.op = "clearInstances" /\ Succeeded(e)) => ClearsOnlyInstances(e)
    /\ ResolveAfterClear(e, {"class"}) => ConstructedAnew(e)

C14_NextClassResolveConstructs == [][C14_Step]_vars

\* A container with a Value registration, an interceptor and a Singleton
\* class registration whose instance was cached was cleared, and the resolve
\* after it returned another instance than the resolve before it.
C14_Witness ==
  \E i, j \in DOMAIN log :
    /\ j = i + 2 /\ ResolvedVia(i) /\ ResolvedVia(j)
    /\ log[i + 1].op = "clearInstances" /\ Succeeded(log[i + 1])
    /\ log[i].c = log[j].c /\ log[i + 1].c = log[i].c
    /\ log[i].reg = log[j].reg
    /\ isClassProvider(regs[log[i].reg].provider)
    /\ log[i].val # log[j].val
    /\ \E k \in DOMAIN log :
         k < i /\ log[k].op = "registerInstance" /\ log[k].c = log[i].c
         /\ registry[log[i].c][log[k].t] = <<>>

\* The registerSingleton call e appended one Singleton registration with
\* provider p to the sequence of e.t and changed no other registration.
StoredSingleton(e, p) ==
  /\ Succeeded(e)
  /\ regs' = Append(regs, [provider |-> p, lifecycle |-> Singleton, instance |-> Undefined,
                           home |-> e.c, copyOf |-> 0])
  /\ registry' = [registry EXCEPT ![e.c][e.t] = Append(@, Len(regs) + 1)]

\* C15 as stated: registerSingleton(from, to) stores a Singleton registration
\* under from (alias cycles aside): a Token provider for to when to is a plain
\* identifier, a Class provider for to when to is a constructor, a Class
\* provider for from when from is a constructor and to is omitted; with a
\* plain identifier as from and no to it fails with the configuration error
\* and registers nothing.
C15_Step ==
  LET e == Last(log') IN
  (/\ log' = Append(log, e) /\ e.op = "registerSingleton"
   /\ ~containers[e.c].disposed /\ e.err # Err(CycleError))
    => /\ isNormalToken(e.to) => StoredSingleton(e, TokenProvider(e.to))
       /\ isConstructorToken(e.to) => StoredSingleton(e, ClassProvider(e.to))
       /\ (e.to = NoToken /\ isConstructorToken(e.t)) => StoredSingleton(e, ClassProvider(e.t))
       /\ (e.to = NoToken /\ isNormalToken(e.t)) =>
            /\ e.err = Err(SingletonToError)
            /\ registry' = registry /\ regs' = regs

C15_SingletonProviderByTo == [][C15_Step]_vars

\* The proxies the step made, none of which has looked its target up.
NewProxies == {p \in DOMAIN proxies' : p \notin DOMAIN proxies}
NewInsts == {k \in DOMAIN insts' : k \notin DOMAIN insts}

\* resolve of a DelayedConstructor or of one of the constructors that take
\* each other returns: a proxy and nothing else is made for the former, an
\* instance of the constructor for the latter, and no proxy made on the way
\* has resolved its target.
C16_ResolveStep(e) ==
  (/\ e.op = "resolve" /\ ~containers[e.c].disposed
   /\ e.t \in MutualCtors \cup DelayedConstructors
   /\ (e.t \in {"KA", "KB"} => Holders(e.c, "A") # <<>>))
    => /\ Succeeded(e)
       /\ \A p \in NewProxies : ~proxies'[p].init /\ proxies'[p].c = e.c
       /\ e.t \in MutualCtors => insts'[e.val[1]].cls = e.t /\ e.val[1] \in NewInsts
       /\ e.t \in DelayedConstructors =>
            /\ insts' = Append(insts, [cls |-> "Proxy", args |-> <<>>, by |-> e.c, disposeCalls |-> 0])
            /\ \E p \in NewProxies : proxies'[p].inst = e.val[1] /\ NewProxies = {p}
            /\ e.trace = <<>>

\* A use of the proxy e.made: the first one resolves the wrapped constructor
\* through the container and the ResolutionContext of the construct call that
\* made the proxy, and keeps the instance; a later one resolves nothing.
C16_AccessStep(e) ==
  LET p == e.made
      context == proxies[p].context
  IN
  e.op = "access" =>
    IF proxies[p].init
    THEN /\ e.val = <<proxies[p].value>> /\ e.trace = <<>>
         /\ insts' = insts /\ proxies' = proxies /\ regs' = regs /\ ctxs' = ctxs
    ELSE Succeeded(e) =>
         /\ proxies'[p] = [proxies[p] EXCEPT !.init = TRUE, !.value = e.val[1]]
         /\ insts'[e.val[1]].cls = wrap(proxies[p].delayed) /\ e.val[1] \in NewInsts
         /\ \A k \in NewInsts : insts'[k].by = proxies[p].c
         /\ Len(ctxs') = Len(ctxs)
         /\ \A r \in DOMAIN ctxs[context] :
              /\ ctxs'[context][r] = ctxs[context][r]
              /\ \A i \in DOMAIN e.trace :
                   e.trace[i].reg = r => e.trace[i].v = ctxs[context][r]

C16_Step ==
  LET e == Last(log') IN
  log' = Append(log, e) => C16_ResolveStep(e) /\ C16_AccessStep(e)

\* C16: for two constructors that take each other, at least one through a
\* DelayedConstructor, resolve of either returns an instance; resolving the
\* DelayedConstructor returns a proxy without resolving the target, and the
\* target is resolved, through the same container and ResolutionContext, on
\* the first use of the proxy only.
C16_DelayedResolvedOnFirstUse == [][C16_Step]_vars

\* KA was resolved with A registered per resolution; the proxy it was given
\* was used twice: the first use made a KB whose A is the A of that KA, the
\* second handed the same KB out.
C16_Witness ==
  \E i, j, k \in DOMAIN log :
    /\ i < j /\ j < k
    /\ log[i].op = "resolve" /\ log[i].t = "KA" /\ Succeeded(log[i])
    /\ log[j].op = "access" /\ ~log[j].flag /\ Succeeded(log[j])
    /\ log[k].op = "access" /\ log[k].flag /\ log[k].made = log[j].made
    /\ insts[log[i].val[1]].args[2].subs = <<proxies[log[j].made].inst>>
    /\ log[k].val = log[j].val
    /\ insts[log[j].val[1]].cls = "KB"
    /\ insts[log[j].val[1]].args[2].subs = insts[log[i].val[1]].args[1].subs
    /\ \E r \in DOMAIN regs :
         regs[r].lifecycle = ResolutionScoped /\ r \in DOMAIN ctxs[proxies[log[j].made].context]

\* The registration objects in the registry of container c.
RegistrationsOf(c) == UNION {Range(registry[c][t]) : t \in Tokens}

ChildOperations ==
  {"register", "registerType", "registerInstance", "registerSingleton", "resolve",
   "resolveAll", "clearInstances", "reset", "dispose"}

C17_Step ==
  LET e == Last(log')
      parent == containers[e.c].parent
  IN
  (/\ log' = Append(log, e) /\ e.op \in ChildOperations /\ parent # 0)
    => /\ registry'[parent] = registry[parent]
       /\ \A r \in RegistrationsOf(parent) : regs'[r] = regs[r]

\* C17 as stated: no operation called on a child container changes the
\* registration sequences of its parent's registry or the cached instance of
\* a registration in it.
C17_ChildLeavesParentRegistry == [][C17_Step]_vars

\* The interceptors added so far, by the number of the call that added them.
Interceptors == {i \in DOMAIN log : log[i].op \in {"beforeResolution", "afterResolution"}}

\* The times the callback of interceptor i was invoked: <<call, position>>.
Invocations(i) ==
  {x \in UNION {{<<k, n>> : n \in DOMAIN log[k].fired} : k \in DOMAIN log} :
     log[x[1]].fired[x[2]] = i}

\* The resolve and resolveAll calls for the token of interceptor i after it
\* was added.
CallsFor(i) ==
  {k \in DOMAIN log :
     /\ k > i /\ log[k].op \in {"resolve", "resolveAll"}
     /\ log[k].c = log[i].c /\ log[k].t = log[i].t}

\* The callbacks call k invoked for its token, before or after resolving it.
FiredOf(k, op) == SelectSeq(log[k].fired, LAMBDA i : log[i].op = op)

Ascending(s) == \A m, n \in DOMAIN s : m < n => s[m] < s[n]

\* C18 as stated: the callback of a "Once" interceptor is invoked at most
\* once over all the resolve and resolveAll calls for its token, calls that
\* fail because a callback throws included; an "Always" interceptor is
\* invoked on every such call (read here as: every call that returns); the
\* interceptors of a token run in insertion order.
C18_OnceAtMostOnce ==
  /\ \A i \in Interceptors :
       /\ log[i].frequency = "Once" => Cardinality(Invocations(i)) <= 1
       /\ log[i].frequency = "Always" =>
            \A k \in CallsFor(i) : Succeeded(log[k]) => i \in Range(log[k].fired)
  /\ \A k \in DOMAIN log :
       /\ Ascending(FiredOf(k, "beforeResolution"))
       /\ Ascending(FiredOf(k, "afterResolution"))

\* The callbacks the pre-resolution interceptors of a call's token invoke when
\* all of them are run: those in the list, up to the first that throws.
RECURSIVE UpToThrow(_)
UpToThrow(all) ==
  IF all = <<>> THEN <<>>
  ELSE IF Head(all).callback = "throw" THEN <<Head(all).id>>
  ELSE <<Head(all).id>> \o UpToThrow(Tail(all))

C19_Step ==
  LET e == Last(log')
      all == pre[e.c][e.t]
      threw == \E i \in DOMAIN all : all[i].callback = "throw"
  IN
  (/\ log' = Append(log, e) /\ e.op \in {"resolve", "resolveAll"}
   /\ ~containers[e.c].disposed)
    => /\ SelectSeq(e.fired, LAMBDA i : log[i].op = "beforeResolution") = UpToThrow(all)
       /\ ~threw => pre'[e.c][e.t] = SelectSeq(all, LAMBDA i : i.frequency # "Once")
       /\ (~threw /\ e.err = Err(UnregisteredError)) => registry'[e.c][e.t] = <<>>
       /\ (/\ Succeeded(e) /\ e.op = "resolve"
           /\ \E i \in DOMAIN all : all[i].callback = "register")
            => e.trace # <<>> /\ e.trace[1].reg = Last(registry'[e.c][e.t])

\* C19 as stated: every resolve and resolveAll call on a container that is
\* not disposed runs the pre-resolution interceptors of the token before it
\* looks the registration up: they run, and the "Once" ones are removed, also
\* when the call fails with the unregistered-token error, and a registration
\* a pre-resolution interceptor adds for the token is the one the call resolves.
C19_InterceptorsBeforeLookup == [][C19_Step]_vars

\* new Error(formatErrorCtor(ctor, idx, e)): the error construct throws when
\* parameter idx of ctor cannot be resolved.
CannotInject(ctor, idx) == [what |-> "Cannot inject the dependency", ctor |-> ctor, idx |-> idx]

\* Nothing was kept for registration r: no cached instance, no entry in a
\* ResolutionContext.
NothingCached(e, r) == regs'[r].instance = Undefined /\ r \notin e.scoped

\* The last registration of A, the one resolve("A") resolves.
RegistrationOfA == Last(registry[1]["A"])

\* B is not registered: resolveAll of A, registered with KNeed, fails in the
\* same way and keeps nothing for any registration of A.
ResolveAllFails ==
  LET e == Last(log')
      broken == registry[1]["B"] = <<>>
      viaA == registry[1]["A"] # <<>>
  IN
  (log' = Append(log, e) /\ e.op = "resolveAll" /\ broken /\ viaA) =>
    /\ e.err # NoErr /\ Head(e.err) = CannotInject("KNeed", 1)
    /\ \A k \in NewInsts : insts'[k].cls # "KNeed"
    /\ \A r \in Range(registry[1]["A"]) : NothingCached(e, r)

\* B is not registered, so parameter 1 of KNeed cannot be resolved: a
\* resolve that constructs KNeed (for the token KNeed, for A registered with
\* KNeed, or for parameter 0 of KPair) fails with the error that names the
\* constructor and the index, makes no instance of it, and caches nothing; a
\* later resolve constructs again, and succeeds once B is registered.
C20_Step ==
  LET e == Last(log')
      broken == registry[1]["B"] = <<>>
      viaA == registry[1]["A"] # <<>>
  IN
  /\ ResolveAllFails
  /\ (log' = Append(log, e) /\ e.op = "resolve") =>
    /\ (broken /\ e.t = "KNeed") =>
         /\ e.err # NoErr /\ Head(e.err) = CannotInject("KNeed", 1)
         /\ \A k \in NewInsts : insts'[k].cls # "KNeed"
    /\ (broken /\ e.t = "A" /\ viaA) =>
         /\ e.err # NoErr /\ Head(e.err) = CannotInject("KNeed", 1)
         /\ \A k \in NewInsts : insts'[k].cls # "KNeed"
         /\ \E k \in NewInsts : insts'[k].cls = "K0"
         /\ e.reg = RegistrationOfA /\ NothingCached(e, e.reg)
    /\ (broken /\ e.t = "KPair" /\ viaA) =>
         /\ Len(e.err) > 1 /\ e.err[1] = CannotInject("KPair", 0)
         /\ e.err[2] = CannotInject("KNeed", 1)
         /\ \A k \in NewInsts : insts'[k].cls \notin {"KNeed", "KPair"}
         /\ NothingCached(e, RegistrationOfA)
    /\ (~broken /\ e.t = "A" /\ viaA /\ regs[e.reg].instance = Undefined) =>
         /\ Succeeded(e) /\ e.val[1] \in NewInsts /\ insts'[e.val[1]].cls = "KNeed"

\* C20: when a parameter of a constructor cannot be resolved, constructing
\* it fails with an error that names the constructor and the parameter index,
\* no instance of it is made and nothing is cached: the cached instance of
\* the Singleton or ContainerScoped registration stays empty and the
\* ResolutionContext gets no entry, so a later resolve constructs again.
C20_FailedParameterCachesNothing == [][C20_Step]_vars

\* A was registered for KNeed with a caching lifecycle and resolved while B
\* was not registered, which failed and cached nothing; B was registered and
\* the next resolve of A made the KNeed that is now cached.
C20_Witness ==
  \E i, j \in DOMAIN log :
    /\ i < j
    /\ log[i].op = "resolve" /\ log[i].t = "A" /\ log[i].reg # 0
    /\ log[i].err # NoErr /\ Head(log[i].err) = CannotInject("KNeed", 1)
    /\ log[j].op = "resolve" /\ log[j].t = "A" /\ log[j].reg = log[i].reg
    /\ Succeeded(log[j])
    /\ regs[log[i].reg].lifecycle \in {Singleton, ContainerScoped}
    /\ regs[log[i].reg].instance = log[j].val[1]
    /\ insts[log[j].val[1]].cls = "KNeed"

\* Only Singleton and ContainerScoped registrations have a cached instance.
CachedOnlyWhenShared ==
  \A r \in DOMAIN regs :
    regs[r].instance # Undefined => regs[r].lifecycle \in {Singleton, ContainerScoped}

\* The registrations whose cached instance the step filled.
Filled ==
  {r \in DOMAIN regs' :
     /\ regs'[r].instance # Undefined
     /\ r \in DOMAIN regs => regs[r].instance = Undefined}

\* The call e resolved registration r to the instance r now caches.
ResolvedThrough(e, r) ==
  /\ e.op \in {"resolve", "resolveAll"}
  /\ \E i \in DOMAIN e.trace : e.trace[i] = [reg |-> r, v |-> regs'[r].instance]

\* The values a call stored in a ResolutionContext are those of
\* ResolutionScoped registrations, which cache nothing themselves.
ScopedOnlyInContext ==
  LET e == Last(log') IN
  log' = Append(log, e) =>
    \A r \in e.scoped :
      regs'[r].lifecycle = ResolutionScoped /\ regs'[r].instance = Undefined

C21_StepAsStated ==
  LET e == Last(log') IN
  /\ ScopedOnlyInContext
  /\ \A r \in Filled :
       log' = Append(log, e) /\ ResolvedThrough(e, r) /\ Succeeded(e)

\* C21 as stated: a registration has a cached instance only if its lifecycle
\* is Singleton or ContainerScoped and a resolve or resolveAll through it has
\* completed successfully since it was registered or last cleared; a
\* ResolutionScoped value is stored in the call's ResolutionContext only.
C21_CachedAfterSuccessfulCall == []CachedOnlyWhenShared /\ [][C21_StepAsStated]_vars

C21_Step ==
  LET e == Last(log') IN
  /\ ScopedOnlyInContext
  /\ \A r \in Filled : log' = Append(log, e) /\ ResolvedThrough(e, r)

\* C21, amended: a registration has a cached instance only if its lifecycle
\* is Singleton or ContainerScoped and a resolve or resolveAll call has
\* resolved it since it was registered or last cleared, whether or not that
\* call then returned; a ResolutionScoped value is stored in the call's
\* ResolutionContext only.
C21_CachedAfterResolution == []CachedOnlyWhenShared /\ [][C21_Step]_vars

\* A Singleton registration caches the instance that a resolve made before
\* its post-resolution interceptor threw; no call resolved it before.
C21_Witness ==
  \E k \in DOMAIN log, r \in DOMAIN regs :
    /\ log[k].op = "resolve" /\ log[k].err = Err(InterceptorError)
    /\ regs[r].lifecycle = Singleton /\ regs[r].instance # Undefined
    /\ log[k].trace = <<[reg |-> r, v |-> regs[r].instance]>>
    /\ \A j \in DOMAIN log : j < k => log[j].trace = <<>>

\* The resolve and resolveAll calls during which instance k was constructed.
BuiltBy(k) ==
  {j \in DOMAIN log : log[j].op \in {"resolve", "resolveAll"} /\ k \in log[j].built}

\* Every disposable instance is in the disposables of the container on which
\* the call that constructed it was made, once, and in no other.
OwnedByCaller ==
  \A k \in DOMAIN insts :
    isDisposable(insts[k].cls) =>
      \E j \in BuiltBy(k) :
        \A c \in DOMAIN containers :
          Cardinality({i \in DOMAIN disposables[c] : disposables[c][i] = k})
            = IF c = log[j].c THEN 1 ELSE 0

\* dispose() on container e.c invokes dispose on instances constructed
\* during calls made on e.c only.
C22_Step ==
  LET e == Last(log') IN
  (log' = Append(log, e) /\ e.op = "dispose") =>
    \A k \in DOMAIN insts :
      insts'[k].disposeCalls # insts[k].disposeCalls =>
        \E j \in BuiltBy(k) : log[j].c = e.c

\* C22: a constructed instance that has a dispose method joins the
\* disposables of the container on which resolve or resolveAll was called,
\* and of no other; dispose() on a container invokes dispose only on the
\* instances constructed during calls made on it, also when the registration
\* is a Singleton of the parent's registry, and never on those constructed
\* during calls on its parent or its children.
C22_DisposablesOfCaller == []OwnedByCaller /\ [][C22_Step]_vars

\* A child resolved A, a Singleton of its parent's registry, and was
\* disposed: the KD made for the child was torn down, the parent is not
\* disposed and its registration still caches that KD.
C22_Witness ==
  \E j, d \in DOMAIN log, r \in DOMAIN regs :
    /\ j < d
    /\ log[j].op = "resolve" /\ log[j].t = "A" /\ Succeeded(log[j])
    /\ containers[log[j].c].parent # 0
    /\ log[j].reg = r /\ regs[r].home = containers[log[j].c].parent
    /\ regs[r].lifecycle = Singleton /\ r \in Range(registry[regs[r].home]["A"])
    /\ log[j].val[1] \in log[j].built
    /\ regs[r].instance = log[j].val[1]
    /\ log[d].op = "dispose" /\ log[d].c = log[j].c
    /\ insts[log[j].val[1]].disposeCalls = 1
    /\ ~containers[regs[r].home].disposed
    /\ disposables[regs[r].home] = <<>>

====
